---- MODULE Spec2Model ----
(***************************************************************************)
(* Secret-Santa bot (Sanmen87/taini_santa): the participant directory      *)
(* (ParticipantsService over a gspread worksheet, with its process-wide    *)
(* cache), the draw and the notification fan-out of handlers/admin.py and  *)
(* the participant handlers of handlers/user.py.                           *)
(*                                                                         *)
(* Encodings.  Optional[T] is a sequence: None is <<>>, a present value v  *)
(* is <<v>>.  The worksheet is a sequence of rows, each a sequence of      *)
(* strings, row 1 being the header, so that a row's index is its gspread   *)
(* row number.  Cyrillic literals of the source are transliterated.        *)
(* A Participant is a record of the 15 dataclass fields plus row_index,    *)
(* the attribute the service sets on the instance (0: attribute absent).   *)
(*                                                                         *)
(* Failures.  A handler invocation is given failAt, the ordinal of the     *)
(* one store call (a gspread request) that raises a transport error        *)
(* during it (0: none); every store call counts.  The handlers are         *)
(* coroutines on one event loop and the gspread calls are blocking, so a   *)
(* handler runs atomically between two awaits that really suspend (the     *)
(* Telegram requests).                                                     *)
(***************************************************************************)
EXTENDS Integers, Sequences, FiniteSets, TLC

VARIABLES
    sheet,   \* the Participants worksheet: rows of cells, header first
    cache,   \* _participants_cache: None or <<entry>>
    now,     \* the clock (time.monotonic and utc_now_iso)
    task,    \* the admin handler suspended at an await
    inbox,   \* messages delivered to each participant, by kind
    faults,  \* failures injected so far (store calls and deliveries)
    ops,     \* handler invocations and service calls so far
    last     \* what the most recent step did and returned

vars == <<sheet, cache, now, task, inbox, faults, ops, last>>

-----------------------------------------------------------------------------
(* Bounds of the model *)

NumUsers == 3
NumDrawn == 4
NumRows == 3
MaxFaults == 1
MaxOps == 2
MaxDraws == 2
MaxNotifies == 1
MaxCalls == 2
MaxCallerSteps == 3
MaxEdits == 2
MaxReads == 3
MaxMessages == 5
ClockStep == 5
MaxLoads == 2
MaxRedraws == 2
MaxUpdates == 2
MaxTime == 20
BatchChunk == 2

(* Program constants *)

participants_cache_ttl == 10

Users == 1..NumUsers
MaxUser == IF NumDrawn > NumUsers THEN NumDrawn ELSE NumUsers
AdminId == MaxUser + 1

None == <<>>
Some(v) == <<v>>
\* Python truthiness of an Optional[int] / Optional[str]
TruthyInt(o) == o # None /\ o[1] # 0
TruthyStr(o) == o # None /\ o[1] # ""
OrEmpty(o) == IF TruthyStr(o) THEN o[1] ELSE ""
OrNone(s) == IF s = "" THEN None ELSE Some(s)

-----------------------------------------------------------------------------
(* schemas.py *)

PARTICIPANTS_COLUMNS ==
    << "Vremya obnovleniya", "Telegram ID", "Username", "FIO", "Otdel",
       "Telefon", "Uchastvuet", "Podtverzhdyon", "Validator",
       "Vremya validatsii", "Telegram ID poluchatelya", "FIO poluchatelya",
       "Info o poluchatele", "Uvedomlyon", "Kommentariy administratora" >>

\* str(int) and int(str) over the integers the model writes into cells
IntDomain == 0..AdminId
str(n) == ToString(n)
IntTexts == [n \in IntDomain |-> str(n)]
IsIntText(s) == \E n \in IntDomain : IntTexts[n] = s
int(s) == CHOOSE n \in IntDomain : IntTexts[n] = s

_bool(v) == IF v THEN "TRUE" ELSE "FALSE"

\* str.upper() == "TRUE" over the spellings a cell can hold
UpperIsTrue(s) == s \in {"TRUE", "True", "true"}

_get(row, i) == IF i + 1 <= Len(row) THEN row[i + 1] ELSE ""

\* Participant.from_row raises ValueError when an int() cell is not numeric
from_row_raises(row) ==
    \/ (_get(row, 1) # "" /\ ~IsIntText(_get(row, 1)))
    \/ (_get(row, 8) # "" /\ ~IsIntText(_get(row, 8)))
    \/ (_get(row, 10) # "" /\ ~IsIntText(_get(row, 10)))

from_row(row) ==
    [ tg_id           |-> IF _get(row, 1) # "" THEN int(_get(row, 1)) ELSE 0,
      username        |-> OrNone(_get(row, 2)),
      full_name       |-> _get(row, 3),
      department      |-> _get(row, 4),
      phone           |-> _get(row, 5),
      active          |-> UpperIsTrue(_get(row, 6)),
      validated       |-> UpperIsTrue(_get(row, 7)),
      validator_tg_id |-> IF _get(row, 8) # "" THEN Some(int(_get(row, 8))) ELSE None,
      validation_ts   |-> OrNone(_get(row, 9)),
      recipient_tg_id |-> IF _get(row, 10) # "" THEN Some(int(_get(row, 10))) ELSE None,
      recipient_name  |-> OrNone(_get(row, 11)),
      recipient_info  |-> OrNone(_get(row, 12)),
      notified        |-> UpperIsTrue(_get(row, 13)),
      admin_comment   |-> OrNone(_get(row, 14)),
      updated_at      |-> OrNone(_get(row, 0)),
      row_index       |-> 0 ]

to_row(p) ==
    << OrEmpty(p.updated_at),
       str(p.tg_id),
       OrEmpty(p.username),
       p.full_name,
       p.department,
       p.phone,
       _bool(p.active),
       _bool(p.validated),
       IF p.validator_tg_id # None THEN str(p.validator_tg_id[1]) ELSE "",
       OrEmpty(p.validation_ts),
       IF p.recipient_tg_id # None THEN str(p.recipient_tg_id[1]) ELSE "",
       OrEmpty(p.recipient_name),
       OrEmpty(p.recipient_info),
       _bool(p.notified),
       OrEmpty(p.admin_comment) >>

\* The dataclass constructor with its defaults (user.py builds a new participant with it)
Participant(tg_id, username, full_name, department, phone) ==
    [ tg_id |-> tg_id, username |-> username, full_name |-> full_name,
      department |-> department, phone |-> phone,
      active |-> TRUE, validated |-> FALSE,
      validator_tg_id |-> None, validation_ts |-> None,
      recipient_tg_id |-> None, recipient_name |-> None, recipient_info |-> None,
      notified |-> FALSE, admin_comment |-> None, updated_at |-> None,
      row_index |-> 0 ]

-----------------------------------------------------------------------------
(* google_sheets.py *)

utc_now_iso(t) == "T" \o str(t)

-----------------------------------------------------------------------------
(* The gspread worksheet.  A world w carries the worksheet and the cache    *)
(* through one handler invocation, with the count of store calls made and *)
(* the ordinal of the call that raises.                                    *)

World(sh, c, failAt) ==
    [sheet |-> sh, cache |-> c, calls |-> 0, failAt |-> failAt, swallowed |-> FALSE]
Raises(w) == w.calls + 1 = w.failAt
StoreCall(w) == [w EXCEPT !.calls = @ + 1]
Faulted(w) == w.failAt # 0 /\ w.calls >= w.failAt

Min(S) == CHOOSE x \in S : \A y \in S : x <= y

\* Worksheet.find(query, in_column=2): the first cell of column 2 equal to query
find(sh, query) ==
    LET hits == {i \in 1..Len(sh) : Len(sh[i]) >= 2 /\ sh[i][2] = query}
    IN IF hits = {} THEN None ELSE Some(Min(hits))

RECURSIVE TrimTrailing(_)
TrimTrailing(row) ==
    IF row # <<>> /\ row[Len(row)] = ""
    THEN TrimTrailing(SubSeq(row, 1, Len(row) - 1))
    ELSE row

\* Worksheet.row_values(i): the row without its trailing empty cells
row_values(sh, i) == IF i <= Len(sh) THEN TrimTrailing(sh[i]) ELSE <<>>

\* Worksheet.update("i:i", [values])
update(sh, i, values) ==
    [k \in 1..(IF i > Len(sh) THEN i ELSE Len(sh)) |->
        IF k = i THEN values ELSE IF k <= Len(sh) THEN sh[k] ELSE <<>>]

append_row(sh, values) == Append(sh, values)

get_all_values(sh) == sh

DataRows(sh) == IF Len(sh) >= 2 THEN SubSeq(sh, 2, Len(sh)) ELSE <<>>

-----------------------------------------------------------------------------
(* services/participants_service.py: the process-wide cache *)

\* self._cache_ttl = max(0.0, float(setting))
cache_ttl_of(setting) == IF setting > 0 THEN setting ELSE 0

_cache_ttl == cache_ttl_of(participants_cache_ttl)

\* dataclasses.replace copies the declared fields only: the row_index
\* attribute set on the instance is not carried to the clone
_clone_participant(p) == [p EXCEPT !.row_index = 0]

CloneAll(ps) == [i \in 1..Len(ps) |-> _clone_participant(ps[i])]

_set_participants_cache(ps, ttl, t) ==
    IF ttl <= 0 THEN None
    ELSE Some([expires_at |-> t + ttl, participants |-> CloneAll(ps)])

\* A variant that takes the snapshot for expired at its expiry time
_get_cached_list_expiring_early(c, t) ==
    IF c = None THEN None
    ELSE IF t >= c[1].expires_at THEN None
    ELSE Some(CloneAll(c[1].participants))

_get_cached_list(c, t) ==
    IF c = None THEN None
    ELSE IF t > c[1].expires_at THEN None
    ELSE Some(CloneAll(c[1].participants))

Max(S) == CHOOSE x \in S : \A y \in S : x >= y

\* by_tg_id = {p.tg_id: p for p in clones if p.tg_id}: the last row of a tg_id wins
_get_cached_participant(c, tg_id, t) ==
    IF c = None THEN None
    ELSE IF t > c[1].expires_at THEN None
    ELSE LET ps == c[1].participants
             hits == {i \in 1..Len(ps) : ps[i].tg_id # 0 /\ ps[i].tg_id = tg_id}
         IN IF hits = {} THEN None ELSE Some(_clone_participant(ps[Max(hits)]))

_invalidate_cache == None

-----------------------------------------------------------------------------
(* services/participants_service.py: ParticipantsService.  Each operation  *)
(* maps a world to [w, exc, val]: the world after it, the exception it     *)
(* raised ("none": it returned) and the value it returned.                 *)

Ret(w, val) == [w |-> w, exc |-> "none", val |-> val]
Raise(w, exc) == [w |-> w, exc |-> exc, val |-> None]

_ensure_header(w) ==
    IF Raises(w) THEN Raise(StoreCall(w), "TransportError")
    ELSE LET w1 == StoreCall(w)
         IN IF row_values(w1.sheet, 1) = PARTICIPANTS_COLUMNS THEN Ret(w1, None)
            ELSE IF Raises(w1) THEN Raise(StoreCall(w1), "TransportError")
            ELSE Ret([StoreCall(w1) EXCEPT !.sheet = update(@, 1, PARTICIPANTS_COLUMNS)], None)

\* The lookup swallows every exception of sheet.find and answers None
_find_row_index_by_tg_id(w, tg_id) ==
    IF Raises(w) THEN Ret([StoreCall(w) EXCEPT !.swallowed = TRUE], None)
    ELSE Ret(StoreCall(w), find(w.sheet, str(tg_id)))

get_by_tg_id(w, tg_id, t) ==
    LET h == _ensure_header(w)
    IN IF h.exc # "none" THEN h
       ELSE LET cached == IF _cache_ttl > 0
                          THEN _get_cached_participant(h.w.cache, tg_id, t)
                          ELSE None
            IN IF cached # None THEN Ret(h.w, cached)
               ELSE LET f == _find_row_index_by_tg_id(h.w, tg_id)
                    IN IF f.val = None THEN Ret(f.w, None)
                       ELSE IF Raises(f.w) THEN Raise(StoreCall(f.w), "TransportError")
                       ELSE LET row == row_values(f.w.sheet, f.val[1])
                            IN IF from_row_raises(row)
                               THEN Raise(StoreCall(f.w), "ValueError")
                               ELSE Ret(StoreCall(f.w),
                                        Some([from_row(row) EXCEPT !.row_index = f.val[1]]))

upsert_participant(w, participant, t) ==
    LET h == _ensure_header(w)
    IN IF h.exc # "none" THEN h
       ELSE LET f == _find_row_index_by_tg_id(h.w, participant.tg_id)
                p == [participant EXCEPT !.updated_at = Some(utc_now_iso(t))]
                row_values_ == to_row(p)
            IN IF f.val = None
               THEN IF Raises(f.w) THEN Raise(StoreCall(f.w), "TransportError")
                    ELSE LET a == [StoreCall(f.w) EXCEPT !.sheet = append_row(@, row_values_)]
                             g == _find_row_index_by_tg_id(a, p.tg_id)
                         IN IF g.val = None THEN Raise(g.w, "RuntimeError")
                            ELSE Ret([g.w EXCEPT !.cache = _invalidate_cache],
                                     Some([p EXCEPT !.row_index = g.val[1]]))
               ELSE IF Raises(f.w) THEN Raise(StoreCall(f.w), "TransportError")
                    ELSE Ret([StoreCall(f.w) EXCEPT
                                 !.sheet = update(@, f.val[1], row_values_),
                                 !.cache = _invalidate_cache],
                             Some([p EXCEPT !.row_index = f.val[1]]))

set_active(w, tg_id, active, t) ==
    LET g == get_by_tg_id(w, tg_id, t)
    IN IF g.exc # "none" THEN g
       ELSE IF g.val = None THEN Ret(g.w, None)
       ELSE upsert_participant(g.w, [g.val[1] EXCEPT !.active = active], t)

RowsToParticipants(values) ==
    [k \in 1..(Len(values) - 1) |-> [from_row(values[k + 1]) EXCEPT !.row_index = k + 1]]

\* list_all of a service whose ttl is ttl
list_all_ttl(w, t, ttl) ==
    LET h == _ensure_header(w)
    IN IF h.exc # "none" THEN h
       ELSE LET cached == IF ttl > 0 THEN _get_cached_list(h.w.cache, t) ELSE None
            IN IF cached # None THEN Ret(h.w, cached[1])
               ELSE IF Raises(h.w) THEN Raise(StoreCall(h.w), "TransportError")
               ELSE LET values == get_all_values(h.w.sheet)
                        w1 == StoreCall(h.w)
                    IN IF values = <<>>
                       THEN Ret([w1 EXCEPT !.cache =
                                    IF ttl > 0
                                    THEN _set_participants_cache(<<>>, ttl, t)
                                    ELSE @], <<>>)
                       ELSE IF \E k \in 2..Len(values) : from_row_raises(values[k])
                       THEN Raise(w1, "ValueError")
                       ELSE LET ps == RowsToParticipants(values)
                            IN Ret([w1 EXCEPT !.cache =
                                       IF ttl > 0
                                       THEN _set_participants_cache(ps, ttl, t)
                                       ELSE @], ps)

list_all(w, t) == list_all_ttl(w, t, _cache_ttl)

\* _chunked(seq, size): the list cut into consecutive chunks of at most size items
RECURSIVE _chunked(_, _)
_chunked(seq, size) ==
    IF seq = <<>> THEN <<>>
    ELSE IF Len(seq) <= size THEN <<seq>>
    ELSE <<SubSeq(seq, 1, size)>> \o _chunked(SubSeq(seq, size + 1, Len(seq)), size)

_batch_chunk_size == IF BatchChunk >= 1 THEN BatchChunk ELSE 1

\* Worksheet.batch_update(chunk): every range of the chunk written, in order
RECURSIVE batch_update(_, _)
batch_update(sh, chunk) ==
    IF chunk = <<>> THEN sh
    ELSE batch_update(update(sh, chunk[1].range, chunk[1].values), Tail(chunk))

\* for chunk in _chunked(prepared, size): self.sheet.batch_update(chunk)
RECURSIVE WriteChunks(_, _)
WriteChunks(w, chunks) ==
    IF chunks = <<>> THEN Ret(w, None)
    ELSE IF Raises(w) THEN Raise(StoreCall(w), "TransportError")
    ELSE WriteChunks([StoreCall(w) EXCEPT !.sheet = batch_update(@, chunks[1])],
                     Tail(chunks))

\* A variant that writes the participants it has a position for before it
\* fails for the others
bulk_upsert_positioned(w, participants, t) ==
    IF participants = <<>> THEN Ret(w, None)
    ELSE LET h == _ensure_header(w)
             known == SelectSeq(participants, LAMBDA p : p.row_index # 0)
             prepared ==
                [k \in 1..Len(known) |->
                    [range  |-> known[k].row_index,
                     values |-> to_row([known[k] EXCEPT
                                          !.updated_at = Some(utc_now_iso(t))])]]
         IN IF h.exc # "none" THEN h
            ELSE LET r == WriteChunks(h.w, _chunked(prepared, _batch_chunk_size))
                 IN IF r.exc # "none" THEN r
                    ELSE IF Len(known) < Len(participants)
                    THEN Raise(r.w, "AttributeError")
                    ELSE Ret([r.w EXCEPT !.cache = _invalidate_cache], None)

bulk_upsert_participants(w, participants, t) ==
    IF participants = <<>> THEN Ret(w, None)
    ELSE LET h == _ensure_header(w)
         IN IF h.exc # "none" THEN h
            ELSE IF \E k \in 1..Len(participants) : participants[k].row_index = 0
            THEN Raise(h.w, "AttributeError")
            ELSE LET prepared ==
                        [k \in 1..Len(participants) |->
                            [range  |-> participants[k].row_index,
                             values |-> to_row([participants[k] EXCEPT
                                                  !.updated_at = Some(utc_now_iso(t))])]]
                     r == WriteChunks(h.w, _chunked(prepared, _batch_chunk_size))
                 IN IF r.exc # "none" THEN r
                    ELSE Ret([r.w EXCEPT !.cache = _invalidate_cache], None)

-----------------------------------------------------------------------------
(* The data the model draws from: what a participant typed in the          *)
(* registration flow (two profiles each) and the rows the bot wrote for    *)
(* participants registered, and for some approved, before the first step.  *)

FullName(u, v) == "Fio" \o str(u) \o (IF v = 1 THEN "" ELSE "-bis")
Department(v) == IF v = 1 THEN "Otdel razrabotki" ELSE "Otdel prodazh"
Phone(u, v) == "+7999000" \o str(v) \o "00" \o str(u)
Profiles == 1..2

NewParticipant(u, v) ==
    Participant(u, Some("user" \o str(u)), FullName(u, v), Department(v), Phone(u, v))

Registered(u) == [NewParticipant(u, 1) EXCEPT !.updated_at = Some(utc_now_iso(0))]

Approved(u) ==
    [Registered(u) EXCEPT !.validated = TRUE,
                          !.validator_tg_id = Some(AdminId),
                          !.validation_ts = Some(utc_now_iso(0))]

\* The worksheet with a row for each of the users 1..k, those of the set ok approved
SeedSheet(k, ok) ==
    <<PARTICIPANTS_COLUMNS>> \o
    [u \in 1..k |-> to_row(IF u \in ok THEN Approved(u) ELSE Registered(u))]

NoTask ==
    [pc |-> "idle", snapshot |-> <<>>, idx |-> 0, sent |-> 0, failed |-> 0,
     attempted |-> <<>>, reminder |-> FALSE, only_notified_false |-> FALSE, n |-> 0]

NoInbox == [u \in 1..MaxUser |-> [first |-> 0, reminder |-> 0, copy |-> 0]]

Did(op, result, user, val, w) ==
    [op |-> op, result |-> result, user |-> user, val |-> val,
     fault |-> Faulted(w), swallowed |-> w.swallowed]

Nothing ==
    [op |-> "init", result |-> "none", user |-> 0, val |-> None,
     fault |-> FALSE, swallowed |-> FALSE]

\* A step's world becomes the state; an injected failure is counted
Commit(w) ==
    /\ sheet' = w.sheet
    /\ cache' = w.cache
    /\ faults' = faults + (IF Faulted(w) THEN 1 ELSE 0)

FailPoints(k) == IF faults < MaxFaults THEN 0..k ELSE {0}

\* Time passes: one time-to-live at a step
Tick ==
    /\ now + participants_cache_ttl <= MaxTime
    /\ now' = now + participants_cache_ttl
    /\ UNCHANGED <<sheet, cache, task, inbox, faults, ops, last>>

-----------------------------------------------------------------------------
(* The service called directly: one call of a public method at a step *)

SvcGetByTgId(u, failAt) ==
    LET r == get_by_tg_id(World(sheet, cache, failAt), u, now)
    IN /\ Commit(r.w)
       /\ ops' = ops + 1
       /\ last' = Did("get_by_tg_id", r.exc, u, r.val, r.w)
       /\ UNCHANGED <<now, task, inbox>>

SvcListAll(failAt) ==
    LET r == list_all(World(sheet, cache, failAt), now)
    IN /\ Commit(r.w)
       /\ ops' = ops + 1
       /\ last' = Did("list_all", r.exc, 0, r.val, r.w)
       /\ UNCHANGED <<now, task, inbox>>

SvcUpsert(p, failAt) ==
    LET r == upsert_participant(World(sheet, cache, failAt), p, now)
    IN /\ Commit(r.w)
       /\ ops' = ops + 1
       /\ last' = Did("upsert_participant", r.exc, p.tg_id, r.val, r.w)
       /\ UNCHANGED <<now, task, inbox>>

SvcSetActive(u, active, failAt) ==
    LET r == set_active(World(sheet, cache, failAt), u, active, now)
    IN /\ Commit(r.w)
       /\ ops' = ops + 1
       /\ last' = Did("set_active", r.exc, u, r.val, r.w)
       /\ UNCHANGED <<now, task, inbox>>

\* The lists a caller can hold: the one list_all returns when it reads the
\* store, and the one it returns from the cache
FreshList(sh) == RowsToParticipants(get_all_values(sh))
HeldLists ==
    (IF Len(sheet) >= 2 THEN {FreshList(sheet)} ELSE {})
    \cup (IF cache # None THEN {CloneAll(cache[1].participants)} ELSE {})

\* The caller marks every participant of the list notified and writes the list back
SvcBulkUpsert(held, failAt) ==
    LET ps == [k \in 1..Len(held) |-> [held[k] EXCEPT !.notified = TRUE]]
        r == bulk_upsert_participants(World(sheet, cache, failAt), ps, now)
    IN /\ Commit(r.w)
       /\ ops' = ops + 1
       /\ last' = Did("bulk_upsert_participants", r.exc, 0, ps, r.w)
       /\ UNCHANGED <<now, task, inbox>>

\* The cache as a list_all at time 0 left it
WarmCache(sh) == _set_participants_cache(FreshList(sh), _cache_ttl, 0)

InitService ==
    /\ sheet \in {<<>>} \cup {SeedSheet(k, {}) : k \in (NumRows - 1)..NumRows}
    /\ cache \in {None} \cup (IF Len(sheet) >= 1 THEN {WarmCache(sheet)} ELSE {})
    /\ now = 0
    /\ task = NoTask
    /\ inbox = NoInbox
    /\ faults = 0
    /\ ops = 0
    /\ last = Nothing

SvcUsers == 1..(NumRows + 1)

NextService ==
    \/ Tick
    \/ /\ ops < MaxCalls
       /\ \/ \E u \in SvcUsers, f \in FailPoints(3) : SvcGetByTgId(u, f)
          \/ \E f \in FailPoints(3) : SvcListAll(f)
          \/ \E u \in SvcUsers, v \in Profiles, f \in FailPoints(4) :
                SvcUpsert(NewParticipant(u, v), f)
          \/ \E u \in SvcUsers, b \in BOOLEAN, f \in FailPoints(6) : SvcSetActive(u, b, f)
          \/ \E held \in HeldLists, f \in FailPoints(NumRows + 1) : SvcBulkUpsert(held, f)

SpecService == InitService /\ [][NextService]_vars

-----------------------------------------------------------------------------
(* bulk_upsert_participants alone, over lists in which the caller has      *)
(* replaced some of the participants read from the store by copies served  *)
(* from the cache, which carry no row_index.                               *)

MixedLists(sh) ==
    LET fresh == FreshList(sh)
    IN {[k \in 1..Len(fresh) |->
            IF k \in D THEN _clone_participant(fresh[k]) ELSE fresh[k]] :
        D \in SUBSET (1..Len(fresh))}

InitBulk ==
    /\ sheet \in {SeedSheet(k, {}) : k \in 1..NumRows}
    /\ cache \in {None, WarmCache(sheet)}
    /\ now = 0
    /\ task = NoTask
    /\ inbox = NoInbox
    /\ faults = 0
    /\ ops = 0
    /\ last = Nothing

NextBulk ==
    \/ Tick
    \/ /\ ops < MaxCalls
       /\ \E held \in MixedLists(sheet), f \in FailPoints(NumRows + 1) :
             SvcBulkUpsert(held, f)

SpecBulk == InitBulk /\ [][NextBulk]_vars

-----------------------------------------------------------------------------
(* The cache with the identity of the Participant objects: an object is a  *)
(* record of its identity and its fields, an attribute assignment changes  *)
(* every reference to the object, and the cache entry holds objects.  A    *)
(* caller keeps the lists of two list_all calls and the result of a        *)
(* get_by_tg_id, and assigns attributes of the objects it holds.           *)

Obj(oid, p) == [oid |-> oid, p |-> p]

\* The identities in use: in the cache entry and in the caller's hands
HeldObjects ==
    (IF cache = None THEN {} ELSE {cache[1].participants[k] : k \in 1..Len(cache[1].participants)})
    \cup {task.first[k] : k \in 1..Len(task.first)}
    \cup {task.second[k] : k \in 1..Len(task.second)}
    \cup {task.got[k] : k \in 1..Len(task.got)}
LastOid == IF HeldObjects = {} THEN 0 ELSE Max({o.oid : o \in HeldObjects})

\* A variant of the copy that hands out the object itself
replace_nothing(obj, oid) == obj

\* _clone_participant: dataclasses.replace(participant), a new object
replace(obj, oid) == Obj(oid, _clone_participant(obj.p))

\* Participant.from_row for each data row: new objects base + 1, base + 2, ...
ReadObjects(sh, base) ==
    [k \in 1..Len(FreshList(sh)) |-> Obj(base + k, FreshList(sh)[k])]

CacheLive == cache # None /\ now <= cache[1].expires_at

\* list_all: clones of the cached objects, or the objects read from the
\* store, clones of which go into the cache
CallerListAll(slot) ==
    LET base == LastOid
        cached == cache[1].participants
        read == ReadObjects(sheet, base)
    IN /\ task.pc = "caller"
       /\ IF CacheLive
          THEN /\ task' = [task EXCEPT ![slot] =
                              [k \in 1..Len(cached) |-> replace(cached[k], base + k)]]
               /\ cache' = cache
          ELSE /\ task' = [task EXCEPT ![slot] = read]
               /\ cache' = Some([expires_at |-> now + _cache_ttl,
                                 participants |->
                                    [k \in 1..Len(read) |->
                                        replace(read[k], base + Len(read) + k)]])
       /\ ops' = ops + 1
       /\ last' = [Nothing EXCEPT !.op = "list_all", !.result = slot,
                                  !.swallowed = CacheLive]
       /\ UNCHANGED <<sheet, now, inbox, faults>>

\* get_by_tg_id: a clone of the cached object of that tg_id, or the object
\* read from its row
CallerGetByTgId(u) ==
    LET base == LastOid
        cached == cache[1].participants
        hits == IF CacheLive
                THEN {k \in 1..Len(cached) : cached[k].p.tg_id = u}
                ELSE {}
        row == find(sheet, str(u))
    IN /\ task.pc = "caller"
       /\ task' = [task EXCEPT !.got =
                      IF hits # {} THEN <<replace(cached[Max(hits)], base + 1)>>
                      ELSE IF row = None THEN <<>>
                      ELSE <<Obj(base + 1, [from_row(sheet[row[1]])
                                              EXCEPT !.row_index = row[1]])>>]
       /\ ops' = ops + 1
       /\ last' = [Nothing EXCEPT !.op = "get_by_tg_id", !.result = "got",
                                  !.user = u, !.swallowed = hits # {}]
       /\ UNCHANGED <<sheet, cache, now, inbox, faults>>

\* The fields a caller assigns
Assigned(p, field) ==
    CASE field = "full_name" -> [p EXCEPT !.full_name = "Changed"]
      [] field = "notified" -> [p EXCEPT !.notified = ~@]
      [] field = "recipient_tg_id" -> [p EXCEPT !.recipient_tg_id = Some(AdminId)]
AssignedFields == {"full_name", "notified", "recipient_tg_id"}

\* The references to the object oid see the assignment, the others do not
Seen(objs, oid, field) ==
    [k \in 1..Len(objs) |->
        IF objs[k].oid = oid THEN Obj(oid, Assigned(objs[k].p, field)) ELSE objs[k]]

\* held[k].field = value, for a list the caller holds
CallerAssigns(slot, k, field) ==
    /\ task.pc = "caller"
    /\ k \in 1..Len(task[slot])
    /\ LET oid == task[slot][k].oid
       IN /\ task' = [task EXCEPT !.first = Seen(@, oid, field),
                                  !.second = Seen(@, oid, field),
                                  !.got = Seen(@, oid, field)]
          /\ cache' = IF cache = None THEN None
                      ELSE Some([cache[1] EXCEPT
                                   !.participants = Seen(@, oid, field)])
    /\ ops' = ops + 1
    /\ last' = [Nothing EXCEPT !.op = "assign", !.result = slot, !.user = k]
    /\ UNCHANGED <<sheet, now, inbox, faults>>

\* The cache entry an earlier list_all at time 0 left: clones 1, 2, ...
WarmObjects(sh) ==
    Some([expires_at |-> _cache_ttl,
          participants |-> [k \in 1..Len(FreshList(sh)) |->
                               replace(Obj(0, FreshList(sh)[k]), k)]])

InitCopies ==
    /\ sheet \in {SeedSheet(k, 1..(k - 1)) : k \in (NumRows - 1)..NumRows}
    /\ cache \in {None, WarmObjects(sheet)}
    /\ now = 0
    /\ task = [pc |-> "caller", first |-> <<>>, second |-> <<>>, got |-> <<>>]
    /\ inbox = NoInbox
    /\ faults = 0
    /\ ops = 0
    /\ last = Nothing

NextCopies ==
    \/ Tick
    \/ /\ ops < MaxCallerSteps
       /\ \/ \E slot \in {"first", "second"} : CallerListAll(slot)
          \/ \E u \in 1..NumRows : CallerGetByTgId(u)
          \/ \E slot \in {"first", "second"}, k \in 1..NumRows,
                field \in AssignedFields : CallerAssigns(slot, k, field)

SpecCopies == InitCopies /\ [][NextCopies]_vars

-----------------------------------------------------------------------------
(* The pure functions on their own: an input is drawn at the start and the *)
(* function it is an input of is applied to it.                            *)

OptionalStrings == {None, Some(""), Some("text")}
OptionalInts == {None, Some(0), Some(AdminId)}

\* Participant objects, optional fields unset, empty and filled
ParticipantInputs ==
    {[Participant(tg_id, username, full_name, "Otdel prodazh", "+79990001001")
        EXCEPT !.active = active, !.validator_tg_id = validator,
               !.recipient_tg_id = recipient, !.recipient_name = recipient_name,
               !.admin_comment = admin_comment] :
        tg_id \in {0, 1}, username \in OptionalStrings, full_name \in {"", "Fio"},
        active \in BOOLEAN, validator \in OptionalInts, recipient \in OptionalInts,
        recipient_name \in OptionalStrings, admin_comment \in OptionalStrings}

\* Worksheet rows: a full row with some cells replaced, cut to any length
FullRow(tg, active, validator, recipient) ==
    << "T0", tg, "user", "Fio", "Otdel prodazh", "+79990001001", active, "TRUE",
       validator, "T0", recipient, "Fio", "Otdel: Otdel prodazh", "false", "note" >>
RowInputs ==
    {SubSeq(FullRow(tg, active, validator, recipient), 1, n) :
        tg \in {"", "1", "abc"}, active \in {"TRUE", "true", "FALSE", "yes", ""},
        validator \in {"", str(AdminId), "admin"}, recipient \in {"", "2", "n/a"},
        n \in 0..Len(PARTICIPANTS_COLUMNS)}

\* Participant.from_row(p.to_row())
RoundTrip ==
    /\ task.pc = "participant"
    /\ task' = [task EXCEPT !.pc = "done"]
    /\ last' = [Nothing EXCEPT !.op = "round_trip",
                               !.val = Some(from_row(to_row(task.input)))]
    /\ UNCHANGED <<sheet, cache, now, inbox, faults, ops>>

\* Participant.from_row(row)
ParseRow ==
    /\ task.pc = "row"
    /\ task' = [task EXCEPT !.pc = "done"]
    /\ last' = IF from_row_raises(task.input)
               THEN [Nothing EXCEPT !.op = "from_row", !.result = "ValueError"]
               ELSE [Nothing EXCEPT !.op = "from_row",
                                    !.val = Some(from_row(task.input))]
    /\ UNCHANGED <<sheet, cache, now, inbox, faults, ops>>

\* handlers/user.py: a text is the sequence of its characters
PhoneLength == 11
DigitChars == {"0", "1", "2", "3", "4", "5", "6", "7", "8", "9"}

\* re.sub(r"\D", "", text)
DigitsOf(text) == SelectSeq(text, LAMBDA c : c \in DigitChars)

\* A variant that keeps the leading digit as typed
_normalize_keeping_first(text) ==
    LET digits == DigitsOf(text)
    IN IF Len(digits) # PhoneLength \/ digits[1] \notin {"7", "8"} THEN None
       ELSE Some(<<"+">> \o digits)

_normalize_russian_phone(text) ==
    LET digits == DigitsOf(text)
    IN IF Len(digits) # PhoneLength \/ digits[1] \notin {"7", "8"} THEN None
       ELSE LET sevened == IF digits[1] = "8" THEN <<"7">> \o Tail(digits) ELSE digits
            IN Some(<<"+", "7">> \o Tail(sevened))

\* What a participant types: an optional +, a first digit, n further digits,
\* written plainly, as "8 (999) 123-45-67" or with words around it
Subscriber == <<"9", "9", "9", "1", "2", "3", "4", "5", "6", "7", "0">>
Before(style, i) ==
    CASE style = "plain" -> <<>>
      [] style = "grouped" ->
            (CASE i = 1 -> <<" ", "(">>
               [] i = 4 -> <<")", " ">>
               [] i \in {7, 9} -> <<"-">>
               [] OTHER -> <<>>)
      [] style = "worded" -> IF i = 1 THEN <<"t", ".", " ">> ELSE <<>>
RECURSIVE Written(_, _, _)
Written(digits, style, i) ==
    IF i > Len(digits) THEN <<>>
    ELSE Before(style, i) \o <<digits[i]>> \o Written(digits, style, i + 1)
PhoneInputs ==
    {plus \o <<first>> \o Written(SubSeq(Subscriber, 1, n), style, 1) :
        plus \in {<<>>, <<"+">>}, first \in {"7", "8", "9", "0"},
        n \in 0..Len(Subscriber), style \in {"plain", "grouped", "worded"}}

\* reg_phone: _normalize_russian_phone(raw_phone)
NormalizePhone ==
    /\ task.pc = "phone"
    /\ task' = [task EXCEPT !.pc = "done"]
    /\ last' = [Nothing EXCEPT !.op = "_normalize_russian_phone",
                               !.val = _normalize_russian_phone(task.input)]
    /\ UNCHANGED <<sheet, cache, now, inbox, faults, ops>>

InitPure ==
    /\ task \in {[pc |-> "participant", input |-> p] : p \in ParticipantInputs}
           \cup {[pc |-> "row", input |-> row] : row \in RowInputs}
           \cup {[pc |-> "phone", input |-> text] : text \in PhoneInputs}
    /\ sheet = <<>>
    /\ cache = None
    /\ now = 0
    /\ inbox = NoInbox
    /\ faults = 0
    /\ ops = 0
    /\ last = Nothing

NextPure ==
    \/ RoundTrip
    \/ ParseRow
    \/ NormalizePhone

SpecPure == InitPure /\ [][NextPure]_vars

-----------------------------------------------------------------------------
(* handlers/admin.py: the draw *)

\* A variant of the filter that forgets the validation
IsEligibleActiveOnly(p) == p.active

IsEligible(p) == p.active /\ p.validated

\* random.shuffle(eligible): every order of the list
Shuffles(seq) ==
    {[i \in 1..Len(seq) |-> seq[perm[i]]] : perm \in Permutations(1..Len(seq))}

\* Two variants of the receiver's position: one that does not wrap around at
\* the end of the list, one that steps over a neighbour
ReceiverIndexUnwrapped(i, n) == IF i < n THEN i + 1 ELSE n
ReceiverIndexSkipping(i, n) == ((i + 1) % n) + 1

\* receiver = eligible[(i + 1) % n], for the santa at position i of 1..n
ReceiverIndex(i, n) == (i % n) + 1

recipient_info(receiver) ==
    "Otdel: " \o receiver.department \o "\nTelefon: " \o receiver.phone

\* A variant that leaves recipient_info as it was
AssignWithoutInfo(santa, receiver) ==
    [santa EXCEPT !.recipient_tg_id = Some(receiver.tg_id),
                  !.recipient_name = Some(receiver.full_name),
                  !.notified = FALSE]

Assign(santa, receiver) ==
    [santa EXCEPT !.recipient_tg_id = Some(receiver.tg_id),
                  !.recipient_name = Some(receiver.full_name),
                  !.recipient_info = Some(recipient_info(receiver)),
                  !.notified = FALSE]

\* for i, santa in enumerate(eligible): ...; ps.upsert_participant(santa)
RECURSIVE PersistDraw(_, _, _, _)
PersistDraw(w, shuffled, i, t) ==
    IF i > Len(shuffled) THEN Ret(w, None)
    ELSE LET santa == Assign(shuffled[i], shuffled[ReceiverIndex(i, Len(shuffled))])
             r == upsert_participant(w, santa, t)
         IN IF r.exc # "none" THEN r ELSE PersistDraw(r.w, shuffled, i + 1, t)

\* Two variants of the guards: one that lets a single eligible participant
\* through, one without the check for an earlier draw
DrawGuardOneIsEnough(l) ==
    IF l.exc # "none" THEN "load_error"
    ELSE IF Len(SelectSeq(l.val, IsEligible)) < 1 THEN "insufficient"
    ELSE IF \E k \in 1..Len(l.val) :
               IsEligible(l.val[k]) /\ TruthyInt(l.val[k].recipient_tg_id)
         THEN "conflict"
    ELSE "go"
DrawGuardUnblocked(l) ==
    IF l.exc # "none" THEN "load_error"
    ELSE IF Len(SelectSeq(l.val, IsEligible)) < 2 THEN "insufficient"
    ELSE "go"

\* A variant of the guards that blocks the draw only when every eligible
\* participant has a recipient
DrawGuardAllAssigned(l) ==
    IF l.exc # "none" THEN "load_error"
    ELSE IF Len(SelectSeq(l.val, IsEligible)) < 2 THEN "insufficient"
    ELSE IF \A k \in 1..Len(l.val) :
               IsEligible(l.val[k]) => TruthyInt(l.val[k].recipient_tg_id)
         THEN "conflict"
    ELSE "go"

\* _load_participants_or_error and the two guards of _handle_draw
DrawGuard(l) ==
    IF l.exc # "none" THEN "load_error"
    ELSE IF Len(SelectSeq(l.val, IsEligible)) < 2 THEN "insufficient"
    ELSE IF \E k \in 1..Len(l.val) :
               IsEligible(l.val[k]) /\ TruthyInt(l.val[k].recipient_tg_id)
         THEN "conflict"
    ELSE "go"

\* A variant of /draw that sends its answer before it persists: the handler
\* is suspended with the check passed and nothing written
DrawTriggerAnswerFirst(failAt) ==
    /\ ops' = ops + 1
    /\ LET l == list_all(World(sheet, cache, failAt), now)
           guard == DrawGuard(l)
       IN /\ Commit(l.w)
          /\ last' = Did("draw", IF guard = "go" THEN "ok" ELSE guard, 0, None, l.w)
          /\ task' = IF guard = "go"
                     THEN [NoTask EXCEPT !.pc = "draw_answer",
                                         !.n = Len(SelectSeq(l.val, IsEligible))]
                     ELSE task
    /\ UNCHANGED <<now, inbox>>

\* A variant of /draw that logs a write that raised and goes on to its answer
\* and its notification run
DrawTriggerNotifyingAnyway(failAt) ==
    /\ ops' = ops + 1
    /\ LET l == list_all(World(sheet, cache, failAt), now)
           guard == DrawGuard(l)
       IN IF guard # "go"
          THEN /\ Commit(l.w)
               /\ task' = task
               /\ last' = Did("draw", guard, 0, None, l.w)
          ELSE \E shuffled \in Shuffles(SelectSeq(l.val, IsEligible)) :
                  LET r == PersistDraw(l.w, shuffled, 1, now)
                  IN /\ task.pc = "idle"
                     /\ Commit(r.w)
                     /\ task' = [NoTask EXCEPT !.pc = "draw_answer",
                                               !.n = Len(shuffled)]
                     /\ last' = Did("draw", IF r.exc # "none" THEN "persist_error"
                                            ELSE "ok", 0, None, r.w)
    /\ UNCHANGED <<now, inbox>>

\* /draw: _handle_draw up to its first await that suspends.  The model holds
\* one suspended admin handler: a draw that goes on to notify needs the place
DrawTrigger(failAt) ==
    /\ ops' = ops + 1
    /\ LET l == list_all(World(sheet, cache, failAt), now)
           guard == DrawGuard(l)
       IN IF guard # "go"
          THEN /\ Commit(l.w)
               /\ task' = task
               /\ last' = Did("draw", guard, 0, None, l.w)
          ELSE \E shuffled \in Shuffles(SelectSeq(l.val, IsEligible)) :
                  LET r == PersistDraw(l.w, shuffled, 1, now)
                  IN /\ task.pc = "idle"
                     /\ Commit(r.w)
                     /\ IF r.exc # "none"
                        THEN /\ task' = task
                             /\ last' = Did("draw", "persist_error", 0, None, r.w)
                        ELSE /\ task' = [NoTask EXCEPT !.pc = "draw_answer",
                                                       !.n = Len(shuffled)]
                             /\ last' = Did("draw", "ok", 0, None, r.w)
    /\ UNCHANGED <<now, inbox>>

-----------------------------------------------------------------------------
(* handlers/admin.py: the notification fan-out *)

\* A variant of the filters that disregards the notified flag
IsCandidateAnyFlag(p, only_notified_false) ==
    /\ p.active /\ p.validated
    /\ TruthyInt(p.recipient_tg_id) /\ TruthyStr(p.recipient_name)

\* The three filters at the head of the loop of _notify_participants
IsCandidate(p, only_notified_false) ==
    /\ p.active /\ p.validated
    /\ TruthyInt(p.recipient_tg_id) /\ TruthyStr(p.recipient_name)
    /\ ~(only_notified_false /\ p.notified)

\* The next participant of the snapshot, from position k on, that is sent to (0: none)
NextCandidate(snapshot, k, only_notified_false) ==
    LET rest == {i \in k..Len(snapshot) : IsCandidate(snapshot[i], only_notified_false)}
    IN IF rest = {} THEN 0 ELSE Min(rest)

Report(tk) ==
    [snapshot |-> tk.snapshot, attempted |-> tk.attempted, sent |-> tk.sent,
     failed |-> tk.failed, reminder |-> tk.reminder,
     only_notified_false |-> tk.only_notified_false]

\* A variant of the loop that ends at the first send_message that raises
AdvanceUntilFailure(tk, k, op, user, result, w) ==
    LET nxt == IF result = "failed" THEN 0
               ELSE NextCandidate(tk.snapshot, k, tk.only_notified_false)
    IN IF nxt = 0
       THEN /\ task' = NoTask
            /\ last' = Did(op, result, user, Some(Report(tk)), w)
       ELSE /\ task' = [tk EXCEPT !.pc = "sending", !.idx = nxt,
                                  !.attempted = Append(@, nxt)]
            /\ last' = Did(op, result, user, None, w)

\* The loop runs on to the next send_message, or to return sent, failed
Advance(tk, k, op, user, result, w) ==
    LET nxt == NextCandidate(tk.snapshot, k, tk.only_notified_false)
    IN IF nxt = 0
       THEN /\ task' = NoTask
            /\ last' = Did(op, result, user, Some(Report(tk)), w)
       ELSE /\ task' = [tk EXCEPT !.pc = "sending", !.idx = nxt,
                                  !.attempted = Append(@, nxt)]
            /\ last' = Did(op, result, user, None, w)

\* A variant of _notify_participants that counts a failed load as a failed send
NotifyStartCountingLoadFailure(op, only_notified_false, reminder, failAt) ==
    LET l == list_all(World(sheet, cache, failAt), now)
    IN /\ Commit(l.w)
       /\ IF l.exc # "none"
          THEN /\ task' = NoTask
               /\ last' = Did(op, "load_error", 0,
                              Some(Report([NoTask EXCEPT !.reminder = reminder,
                                      !.failed = 1,
                                      !.only_notified_false = only_notified_false])), l.w)
          ELSE Advance([NoTask EXCEPT !.snapshot = l.val, !.reminder = reminder,
                                      !.only_notified_false = only_notified_false],
                       1, op, 0, "started", l.w)

\* _notify_participants up to its first send_message
NotifyStart(op, only_notified_false, reminder, failAt) ==
    LET l == list_all(World(sheet, cache, failAt), now)
    IN /\ Commit(l.w)
       /\ IF l.exc # "none"
          THEN /\ task' = NoTask
               /\ last' = Did(op, "load_error", 0,
                              Some(Report([NoTask EXCEPT !.reminder = reminder,
                                      !.only_notified_false = only_notified_false])), l.w)
          ELSE Advance([NoTask EXCEPT !.snapshot = l.val, !.reminder = reminder,
                                      !.only_notified_false = only_notified_false],
                       1, op, 0, "started", l.w)

\* A variant of /notify that sends the first notification again
NotifyTriggerResending(failAt) ==
    /\ ops' = ops + 1
    /\ NotifyStart("notify", FALSE, FALSE, failAt)
    /\ UNCHANGED <<now, inbox>>

\* /notify: _handle_notify, a reminder
NotifyTrigger(failAt) ==
    /\ ops' = ops + 1
    /\ NotifyStart("notify", FALSE, TRUE, failAt)
    /\ UNCHANGED <<now, inbox>>

\* The draw's message.answer returns (or raises) and the first notification starts
DrawAnswered(answered, failAt) ==
    /\ task.pc = "draw_answer"
    /\ IF answered
       THEN NotifyStart("draw_notify", TRUE, FALSE, failAt)
       ELSE /\ faults < MaxFaults
            /\ failAt = 0
            /\ faults' = faults + 1
            /\ task' = NoTask
            /\ last' = [Nothing EXCEPT !.op = "draw_notify", !.result = "aborted",
                                       !.fault = TRUE]
            /\ UNCHANGED <<sheet, cache>>
    /\ UNCHANGED <<now, inbox, ops>>

\* send_message to the candidate returns or raises; on a delivery the
\* participant not yet notified is marked and persisted; then the loop runs on
Delivered(delivered, failAt) ==
    /\ task.pc = "sending"
    /\ LET p == task.snapshot[task.idx]
           kind == IF task.reminder THEN "reminder" ELSE "first"
       IN IF ~delivered
          THEN /\ faults < MaxFaults
               /\ failAt = 0
               /\ faults' = faults + 1
               /\ UNCHANGED <<sheet, cache, inbox>>
               /\ Advance([task EXCEPT !.failed = @ + 1], task.idx + 1,
                          "deliver", p.tg_id, "failed",
                          [World(sheet, cache, 1) EXCEPT !.calls = 1])
          ELSE /\ inbox' = [inbox EXCEPT ![p.tg_id][kind] = @ + 1]
               /\ IF ~p.notified
                  THEN LET r == upsert_participant(World(sheet, cache, failAt),
                                                   [p EXCEPT !.notified = TRUE], now)
                       IN /\ Commit(r.w)
                          /\ IF r.exc # "none"
                             THEN Advance([task EXCEPT !.failed = @ + 1], task.idx + 1,
                                          "deliver", p.tg_id, "persist_failed", r.w)
                             ELSE Advance([task EXCEPT !.sent = @ + 1], task.idx + 1,
                                          "deliver", p.tg_id, "sent", r.w)
                  ELSE /\ failAt = 0
                       /\ UNCHANGED <<sheet, cache, faults>>
                       /\ Advance([task EXCEPT !.sent = @ + 1], task.idx + 1,
                                  "deliver", p.tg_id, "sent", World(sheet, cache, 0))
    /\ UNCHANGED <<now, ops>>

\* broadcast_do's targets: every participant of the table that has a tg_id
Targets(participants) == SelectSeq(participants, LAMBDA p : p.tg_id # 0)

\* The message the administrator sends in the state waiting_broadcast, which
\* _start_broadcast has set: broadcast_do up to its first message.answer
BroadcastDo(failAt) ==
    /\ task.pc = "idle"
    /\ ops' = ops + 1
    /\ LET l == list_all(World(sheet, cache, failAt), now)
       IN /\ Commit(l.w)
          /\ IF l.exc # "none"
             THEN /\ task' = NoTask
                  /\ last' = Did("broadcast", "load_error", 0, None, l.w)
             ELSE IF Targets(l.val) = <<>>
             THEN /\ task' = NoTask
                  /\ last' = Did("broadcast", "no_targets", 0, None, l.w)
             ELSE /\ task' = [NoTask EXCEPT !.pc = "broadcast_answer",
                                            !.snapshot = Targets(l.val)]
                  /\ last' = Did("broadcast", "started", 0, None, l.w)
    /\ UNCHANGED <<now, inbox>>

\* The opening message.answer of broadcast_do returns, or raises and ends the handler
BroadcastAnswered(answered) ==
    /\ task.pc = "broadcast_answer"
    /\ IF answered
       THEN /\ task' = [task EXCEPT !.pc = "copying", !.idx = 1]
            /\ last' = [Nothing EXCEPT !.op = "copy", !.result = "started"]
            /\ UNCHANGED faults
       ELSE /\ faults < MaxFaults
            /\ faults' = faults + 1
            /\ task' = NoTask
            /\ last' = [Nothing EXCEPT !.op = "copy", !.result = "aborted",
                                       !.fault = TRUE]
    /\ UNCHANGED <<sheet, cache, now, inbox, ops>>

\* copy_message to the next target returns or raises; the loop counts and runs on
BroadcastCopied(delivered) ==
    /\ task.pc = "copying"
    /\ LET p == task.snapshot[task.idx]
           tk == IF delivered THEN [task EXCEPT !.sent = @ + 1, !.idx = @ + 1]
                 ELSE [task EXCEPT !.failed = @ + 1, !.idx = @ + 1]
       IN /\ IF delivered
             THEN /\ inbox' = [inbox EXCEPT ![p.tg_id].copy = @ + 1]
                  /\ UNCHANGED faults
             ELSE /\ faults < MaxFaults
                  /\ faults' = faults + 1
                  /\ UNCHANGED inbox
          /\ task' = IF tk.idx > Len(tk.snapshot) THEN NoTask ELSE tk
          /\ last' = [Nothing EXCEPT !.op = "copy", !.user = p.tg_id,
                         !.result = IF delivered THEN "sent" ELSE "failed",
                         !.fault = ~delivered,
                         !.val = IF tk.idx > Len(tk.snapshot)
                                 THEN Some(Report(tk)) ELSE None]
    /\ UNCHANGED <<sheet, cache, now, ops>>

-----------------------------------------------------------------------------
(* handlers/admin.py: approval and rejection; handlers/user.py: leave and  *)
(* the last step of the registration form                                  *)

\* A variant of the callback that records neither the validator nor the time
ValidationUnsigned(u, approve, failAt) ==
    /\ ops' = ops + 1
    /\ LET g == get_by_tg_id(World(sheet, cache, failAt), u, now)
       IN IF g.exc # "none" \/ g.val = None
          THEN /\ Commit(g.w)
               /\ last' = Did(IF approve THEN "approve" ELSE "reject",
                              IF g.exc # "none" THEN g.exc ELSE "not_found", u, None, g.w)
          ELSE LET p == [g.val[1] EXCEPT !.validated = approve,
                                         !.active = approve]
                   r == upsert_participant(g.w, p, now)
               IN /\ Commit(r.w)
                  /\ last' = Did(IF approve THEN "approve" ELSE "reject",
                                 IF r.exc # "none" THEN r.exc ELSE "ok", u, None, r.w)
    /\ UNCHANGED <<now, task, inbox>>

\* admin_validation_callback up to its first await
Validation(u, approve, failAt) ==
    /\ ops' = ops + 1
    /\ LET g == get_by_tg_id(World(sheet, cache, failAt), u, now)
       IN IF g.exc # "none" \/ g.val = None
          THEN /\ Commit(g.w)
               /\ last' = Did(IF approve THEN "approve" ELSE "reject",
                              IF g.exc # "none" THEN g.exc ELSE "not_found", u, None, g.w)
          ELSE LET p == [g.val[1] EXCEPT !.validated = approve,
                                         !.active = approve,
                                         !.validator_tg_id = Some(AdminId),
                                         !.validation_ts = Some(utc_now_iso(now))]
                   r == upsert_participant(g.w, p, now)
               IN /\ Commit(r.w)
                  /\ last' = Did(IF approve THEN "approve" ELSE "reject",
                                 IF r.exc # "none" THEN r.exc ELSE "ok", u, None, r.w)
    /\ UNCHANGED <<now, task, inbox>>

\* cmd_leave / cq_leave_game
Leave(u, failAt) ==
    /\ ops' = ops + 1
    /\ LET r == set_active(World(sheet, cache, failAt), u, FALSE, now)
       IN /\ Commit(r.w)
          /\ last' = Did("leave",
                         IF r.exc # "none" THEN r.exc
                         ELSE IF r.val = None THEN "not_found" ELSE "ok",
                         u, None, r.w)
    /\ UNCHANGED <<now, task, inbox>>

\* The rows whose recipient is the receiver, rewritten with its present profile
Relinked(sh, receiver) ==
    [k \in 1..Len(sh) |->
        IF k > 1 /\ from_row(sh[k]).recipient_tg_id = Some(receiver.tg_id)
        THEN to_row([from_row(sh[k]) EXCEPT
                        !.recipient_name = Some(receiver.full_name),
                        !.recipient_info = Some(recipient_info(receiver))])
        ELSE sh[k]]

\* A variant of reg_phone that keeps the santa's copy of the profile up to date
reg_phone_relinking(u, v, failAt) ==
    /\ ops' = ops + 1
    /\ LET g == get_by_tg_id(World(sheet, cache, failAt), u, now)
       IN IF g.exc # "none"
          THEN /\ Commit(g.w)
               /\ last' = Did("register", g.exc, u, None, g.w)
          ELSE LET p == IF g.val = None
                        THEN NewParticipant(u, v)
                        ELSE [g.val[1] EXCEPT !.full_name = FullName(u, v),
                                              !.department = Department(v),
                                              !.phone = Phone(u, v),
                                              !.active = TRUE]
                   r == upsert_participant(g.w, p, now)
               IN /\ Commit([r.w EXCEPT !.sheet = Relinked(@, p)])
                  /\ last' = Did("register",
                                 IF r.exc # "none" THEN r.exc ELSE "ok", u, None, r.w)
    /\ UNCHANGED <<now, task, inbox>>

\* reg_phone from its store calls on: the participant is read, built or
\* updated from the data of the flow, and saved
StoreRegistration(u, fio, department, phone, failAt, val) ==
    /\ ops' = ops + 1
    /\ LET g == get_by_tg_id(World(sheet, cache, failAt), u, now)
       IN IF g.exc # "none"
          THEN /\ Commit(g.w)
               /\ last' = Did("register", g.exc, u, val, g.w)
          ELSE LET p == IF g.val = None
                        THEN Participant(u, Some("user" \o str(u)), fio, department, phone)
                        ELSE [g.val[1] EXCEPT !.full_name = fio,
                                              !.department = department,
                                              !.phone = phone,
                                              !.active = TRUE]
                   r == upsert_participant(g.w, p, now)
               IN /\ Commit(r.w)
                  /\ last' = Did("register",
                                 IF r.exc # "none" THEN r.exc ELSE "ok", u, val, r.w)

\* reg_phone with a valid phone, after a valid full name and department
reg_phone(u, v, failAt) ==
    /\ StoreRegistration(u, FullName(u, v), Department(v), Phone(u, v), failAt, None)
    /\ UNCHANGED <<now, task, inbox>>

-----------------------------------------------------------------------------
(* handlers/admin.py: the administrator check at the head of every admin   *)
(* handler.  An update is first taken from the dispatcher (who sent it and *)
(* what it asks is held in last), then its handler runs.                  *)

admin_ids == {AdminId}

\* A variant of the check that lets every sender through
_is_admin_anyone(user_id) == TRUE

_is_admin(user_id) == user_id \in admin_ids

AdminKinds == {"draw", "notify", "list_all", "list_validated", "broadcast",
               "adm_approve", "adm_reject"}

\* _send_participants_list: the load, the filter and the answers to the administrator
_send_participants_list(only_validated, failAt) ==
    /\ ops' = ops + 1
    /\ LET l == list_all(World(sheet, cache, failAt), now)
           filtered == IF l.exc # "none" THEN <<>>
                       ELSE SelectSeq(l.val, LAMBDA p :
                               p.active /\ (only_validated => p.validated))
       IN /\ Commit(l.w)
          /\ last' = Did("list", IF l.exc # "none" THEN "load_error"
                                 ELSE IF filtered = <<>> THEN "empty" ELSE "ok",
                         0, Some(filtered), l.w)
    /\ UNCHANGED <<now, task, inbox>>

\* if not _is_admin(...): return
Refused ==
    /\ ops' = ops + 1
    /\ last' = [Nothing EXCEPT !.op = last.result, !.result = "refused",
                               !.user = last.user]
    /\ UNCHANGED <<sheet, cache, now, task, inbox, faults>>

\* An update of an admin kind arrives from a sender; a validation callback
\* carries the tg_id of the questionnaire in its data
Arrive(sender, kind, target) ==
    /\ last.op # "update"
    /\ last' = [Nothing EXCEPT !.op = "update", !.result = kind, !.user = sender,
                               !.val = IF kind \in {"adm_approve", "adm_reject"}
                                       THEN Some(target) ELSE None]
    /\ UNCHANGED <<sheet, cache, now, task, inbox, faults, ops>>

\* cmd_draw / btn_draw, cmd_notify / btn_notify, btn_list_all,
\* btn_list_validated, cmd_broadcast with broadcast_do, admin_validation_callback
AdminHandler(failAt) ==
    /\ last.op = "update"
    /\ IF ~_is_admin(last.user) THEN failAt = 0 /\ Refused
       ELSE CASE last.result = "draw" -> DrawTrigger(failAt)
              [] last.result = "notify" -> task.pc = "idle" /\ NotifyTrigger(failAt)
              [] last.result = "list_all" -> _send_participants_list(FALSE, failAt)
              [] last.result = "list_validated" -> _send_participants_list(TRUE, failAt)
              [] last.result = "broadcast" -> BroadcastDo(failAt)
              [] last.result = "adm_approve" -> Validation(last.val[1], TRUE, failAt)
              [] last.result = "adm_reject" -> Validation(last.val[1], FALSE, failAt)

-----------------------------------------------------------------------------
(* handlers/user.py: the registration flow.  The flow of a user is its FSM *)
(* state with the data kept so far; a message is the text typed.           *)

\* The letters FIO_RE admits, transliterated, and the characters of a text
Cyrillic == {"o", "t", "m", "e", "n", "a", "i", "v", "d", "l", "O", "I"}

casefold(text) ==
    [i \in 1..Len(text) |->
        CASE text[i] = "O" -> "o" [] text[i] = "I" -> "i" [] OTHER -> text[i]]

strip(text) ==
    LET inked == {i \in 1..Len(text) : text[i] # " "}
    IN IF inked = {} THEN <<>> ELSE SubSeq(text, Min(inked), Max(inked))

\* The text as one string
RECURSIVE Joined(_)
Joined(text) == IF text = <<>> THEN "" ELSE Head(text) \o Joined(Tail(text))

\* FIO_RE = ^[Cyrillic letters, whitespace, hyphen]{5,100}$
FIO_RE(text) ==
    /\ Len(text) \in 5..100
    /\ \A i \in 1..Len(text) : text[i] \in Cyrillic \cup {" ", "-"}

_looks_like_phone(text) == Len(DigitsOf(text)) >= 10

Otmena == <<"o", "t", "m", "e", "n", "a">>

NoFlow == [state |-> "none", fio |-> <<>>, department |-> <<>>]

\* cq_register_start, cq_profile_edit: state.set_state(RegistrationStates.fio)
cq_register_start(u) ==
    /\ ops' = ops + 1
    /\ task' = [task EXCEPT ![u].state = "fio"]
    /\ last' = [Nothing EXCEPT !.op = "register_start", !.user = u]
    /\ UNCHANGED <<sheet, cache, now, inbox, faults>>

\* A step that answers and writes nothing to the store
Answered(op, result, u, text, flow) ==
    /\ ops' = ops + 1
    /\ task' = [task EXCEPT ![u] = flow]
    /\ last' = [Nothing EXCEPT !.op = op, !.result = result, !.user = u,
                               !.val = Some(text)]
    /\ UNCHANGED <<sheet, cache, now, inbox, faults>>

reg_cancel(u, text) == Answered("reg_cancel", "cancelled", u, text, NoFlow)

\* A variant of reg_fio that takes any non-empty text for a name
reg_fio_unchecked(u, text) ==
    LET fio == strip(text)
    IN IF fio = <<>>
       THEN Answered("reg_fio", "empty", u, text, task[u])
       ELSE Answered("reg_fio", "ok", u, text,
                     [task[u] EXCEPT !.fio = fio, !.state = "department"])

reg_fio(u, text) ==
    LET fio == strip(text)
    IN IF fio = <<>>
       THEN Answered("reg_fio", "empty", u, text, task[u])
       ELSE IF ~FIO_RE(fio)
       THEN Answered("reg_fio", "no_match", u, text, task[u])
       ELSE Answered("reg_fio", "ok", u, text,
                     [task[u] EXCEPT !.fio = fio, !.state = "department"])

reg_department(u, text) ==
    LET department == strip(text)
    IN IF department = <<>>
       THEN Answered("reg_department", "empty", u, text, task[u])
       ELSE IF _looks_like_phone(department)
       THEN Answered("reg_department", "phone", u, text, task[u])
       ELSE IF Len(department) < 3
       THEN Answered("reg_department", "short", u, text, task[u])
       ELSE Answered("reg_department", "ok", u, text,
                     [task[u] EXCEPT !.department = department, !.state = "phone"])

\* reg_phone as the flow reaches it: state.clear() comes before the store calls
reg_phone_message(u, text, failAt) ==
    LET normalized_phone == _normalize_russian_phone(strip(text))
    IN IF normalized_phone = None
       THEN failAt = 0 /\ Answered("reg_phone", "no_phone", u, text, task[u])
       ELSE /\ StoreRegistration(u, Joined(task[u].fio), Joined(task[u].department),
                                 Joined(normalized_phone[1]), failAt, Some(text))
            /\ task' = [task EXCEPT ![u] = NoFlow]
            /\ UNCHANGED <<now, inbox>>

\* The message handlers of the flow in the order of their registration:
\* reg_cancel for the text that casefolds to the cancel word, then the
\* handler of the state
FlowMessage(u, text, failAt) ==
    /\ task[u].state # "none"
    /\ IF casefold(text) = Otmena
       THEN failAt = 0 /\ reg_cancel(u, text)
       ELSE CASE task[u].state = "fio" -> failAt = 0 /\ reg_fio(u, text)
              [] task[u].state = "department" -> failAt = 0 /\ reg_department(u, text)
              [] task[u].state = "phone" -> reg_phone_message(u, text, failAt)

\* The bot with every participant registered and the first k approved, one
\* time-to-live after those rows were written
InitAdmin ==
    /\ sheet \in {SeedSheet(NumUsers, 1..k) : k \in 0..NumUsers}
    /\ cache = None
    /\ now = participants_cache_ttl
    /\ task = NoTask
    /\ inbox = NoInbox
    /\ faults = 0
    /\ ops = 0
    /\ last = Nothing

NextAdmin ==
    \/ \E a \in BOOLEAN, f \in FailPoints(2) : DrawAnswered(a, f)
    \/ \E d \in BOOLEAN, f \in FailPoints(3) : Delivered(d, f)
    \/ /\ ops < MaxOps
       /\ \/ \E f \in FailPoints(3 * NumUsers + 2) : DrawTrigger(f)
          \/ \E f \in FailPoints(2) : (task.pc = "idle" /\ NotifyTrigger(f))
          \/ \E u \in Users, a \in BOOLEAN, f \in FailPoints(6) : Validation(u, a, f)
          \/ \E u \in Users, f \in FailPoints(6) : Leave(u, f)
          \/ \E u \in Users, v \in Profiles, f \in FailPoints(6) : reg_phone(u, v, f)

SpecAdmin == InitAdmin /\ [][NextAdmin]_vars

-----------------------------------------------------------------------------
(* The draw alone: an empty worksheet, or NumDrawn participants registered *)
(* and a run of them approved, or all approved and the last one gone;      *)
(* /draw is triggered up to MaxDraws times,                                 *)
(* and the message.answer that follows a persisted draw raises, which ends *)
(* that handler before its notification run.                               *)

\* The worksheet after participant u (0: nobody) has left
LeftSheet(sh, u) ==
    IF u = 0 THEN sh
    ELSE set_active(World(sh, None, 0), u, FALSE, participants_cache_ttl).w.sheet

ApprovedRuns(n) == {1..k : k \in 0..n} \cup {k..n : k \in 1..n}

InitDraw ==
    /\ sheet \in {<<>>} \cup {SeedSheet(NumDrawn, ok) : ok \in ApprovedRuns(NumDrawn)}
                     \cup {LeftSheet(SeedSheet(NumDrawn, 1..NumDrawn), NumDrawn)}
    /\ cache = None
    /\ now = participants_cache_ttl
    /\ task = NoTask
    /\ inbox = NoInbox
    /\ faults = 0
    /\ ops = 0
    /\ last = Nothing

NextDraw ==
    \/ /\ ops < MaxDraws
       /\ \E f \in FailPoints(3 * NumDrawn + 2) : DrawTrigger(f)
    \/ DrawAnswered(FALSE, 0)

SpecDraw == InitDraw /\ [][NextDraw]_vars

-----------------------------------------------------------------------------
(* The notification runs alone, over the stores a draw leaves behind: the  *)
(* first k of NumUsers registered participants approved and drawn, the     *)
(* first j of them marked notified by a delivery, and at most one of them  *)
(* gone since.  Either the draw's handler is still at its message.answer,  *)
(* with its first-notification run ahead, or it has ended; /notify is      *)
(* triggered up to MaxNotifies times.                                      *)

DrawnSheet(k) ==
    LET sh == SeedSheet(NumUsers, 1..k)
    IN PersistDraw(World(sh, None, 0), SelectSeq(FreshList(sh), IsEligible),
                   1, participants_cache_ttl).w.sheet

RECURSIVE NotifiedSheet(_, _)
NotifiedSheet(sh, j) ==
    IF j = 0 THEN sh
    ELSE LET prev == NotifiedSheet(sh, j - 1)
         IN upsert_participant(World(prev, None, 0),
                               [FreshList(prev)[j] EXCEPT !.notified = TRUE],
                               participants_cache_ttl).w.sheet

InitNotify ==
    /\ \/ /\ sheet = SeedSheet(NumUsers, {})
          /\ task = NoTask
       \/ \E k \in 2..NumUsers : \E j \in 0..k, u \in 0..k :
             /\ sheet = LeftSheet(NotifiedSheet(DrawnSheet(k), j), u)
             /\ task \in {NoTask, [NoTask EXCEPT !.pc = "draw_answer", !.n = k]}
    /\ cache = None
    /\ now = 2 * participants_cache_ttl
    /\ inbox = NoInbox
    /\ faults = 0
    /\ ops = 0
    /\ last = Nothing

NextNotify ==
    \/ \E a \in BOOLEAN, f \in FailPoints(2) : DrawAnswered(a, f)
    \/ \E d \in BOOLEAN, f \in FailPoints(3) : Delivered(d, f)
    \/ /\ ops < MaxNotifies
       /\ task.pc = "idle"
       /\ \E f \in FailPoints(2) : NotifyTrigger(f)

SpecNotify == InitNotify /\ [][NextNotify]_vars

-----------------------------------------------------------------------------
(* The game of two from an empty worksheet: each of the two participants   *)
(* registers and is approved, the admin draws once both are approved, and  *)
(* triggers /notify after the draw.  A step that fails is taken again.     *)

Pair == {1, 2}

RowOf(u) == find(sheet, str(u))
HasRow(u) == RowOf(u) # None
RowParticipant(u) == from_row(sheet[RowOf(u)[1]])
SomeoneAssigned ==
    \E k \in 2..Len(sheet) : TruthyInt(from_row(sheet[k]).recipient_tg_id)

InitEndToEnd ==
    /\ sheet = <<>>
    /\ cache = None
    /\ now = 0
    /\ task = NoTask
    /\ inbox = NoInbox
    /\ faults = 0
    /\ ops = 0
    /\ last = Nothing

NextEndToEnd ==
    \/ \E u \in Pair, f \in FailPoints(6) : (~HasRow(u) /\ reg_phone(u, 1, f))
    \/ \E u \in Pair, f \in FailPoints(6) :
          (HasRow(u) /\ ~RowParticipant(u).validated /\ Validation(u, TRUE, f))
    \/ \E f \in FailPoints(3 * NumUsers + 2) :
          /\ \A u \in Pair : HasRow(u) /\ RowParticipant(u).validated
          /\ ~SomeoneAssigned
          /\ DrawTrigger(f)
    \/ \E a \in BOOLEAN, f \in FailPoints(2) : DrawAnswered(a, f)
    \/ \E d \in BOOLEAN, f \in FailPoints(3) : Delivered(d, f)
    \/ \E f \in FailPoints(2) :
          /\ task.pc = "idle"
          /\ SomeoneAssigned
          /\ \A u \in Pair : inbox[u].reminder = 0
          /\ NotifyTrigger(f)

SpecEndToEnd == InitEndToEnd /\ [][NextEndToEnd]_vars

-----------------------------------------------------------------------------
(* Profile edits after a draw: the worksheet a draw over the first k        *)
(* participants left behind, read or not since; participants register again *)
(* with either profile, up to MaxEdits times.                               *)

InitEdit ==
    /\ sheet \in {DrawnSheet(k) : k \in 2..NumUsers}
    /\ cache \in {None, _set_participants_cache(FreshList(sheet), _cache_ttl,
                                                participants_cache_ttl)}
    /\ now = participants_cache_ttl
    /\ task = NoTask
    /\ inbox = NoInbox
    /\ faults = 0
    /\ ops = 0
    /\ last = Nothing

NextEdit ==
    \/ Tick
    \/ /\ ops < MaxEdits
       /\ \E u \in Users, v \in Profiles, f \in FailPoints(6) : reg_phone(u, v, f)

SpecEdit == InitEdit /\ [][NextEdit]_vars

-----------------------------------------------------------------------------
(* Draw triggers in flight together: MaxDraws /draw updates are handled by  *)
(* the one event loop.  A handler runs from its start to its first await    *)
(* that suspends (message.answer, send_message: the gspread calls are plain *)
(* calls that block the loop), so another trigger's handler runs only while *)
(* the first is suspended at its answer or between two deliveries.          *)

InitRace ==
    /\ sheet \in {SeedSheet(NumUsers, 1..k) : k \in 2..NumUsers}
    /\ cache \in {None, _set_participants_cache(FreshList(sheet), _cache_ttl,
                                                participants_cache_ttl)}
    /\ now = participants_cache_ttl
    /\ task = NoTask
    /\ inbox = NoInbox
    /\ faults = 0
    /\ ops = 0
    /\ last = Nothing

NextRace ==
    \/ /\ ops < MaxDraws
       /\ \E f \in FailPoints(3 * NumUsers + 2) : DrawTrigger(f)
    \/ \E a \in BOOLEAN, f \in FailPoints(2) : DrawAnswered(a, f)
    \/ \E d \in BOOLEAN, f \in FailPoints(3) : Delivered(d, f)

SpecRace == InitRace /\ [][NextRace]_vars

-----------------------------------------------------------------------------
(* The cache over time: a service whose participants_cache_ttl setting is  *)
(* the default or 0 is asked for the list up to MaxReads times, with writes *)
(* between the reads and the clock moving in steps of ClockStep.  The       *)
(* caller's record keeps the setting and the time of the last list_all that *)
(* read the data rows, with no write attempted since (listed_at).           *)

CacheSettings == {0, participants_cache_ttl}

ServiceTtl == cache_ttl_of(task.participants_cache_ttl)

Clock ==
    /\ now + ClockStep <= MaxTime
    /\ now' = now + ClockStep
    /\ UNCHANGED <<sheet, cache, task, inbox, faults, ops, last>>

\* list_all; the record of the call keeps the number of its store requests
\* in the place of the user
CacheListAll(failAt) ==
    LET r == list_all_ttl(World(sheet, cache, failAt), now, ServiceTtl)
    IN /\ Commit(r.w)
       /\ ops' = ops + 1
       /\ last' = [Did("list_all", r.exc, 0, Some(r.val), r.w) EXCEPT !.user = r.w.calls]
       /\ task' = IF r.exc = "none" /\ r.w.calls = 2
                  THEN [task EXCEPT !.listed_at = Some(now)]
                  ELSE task
       /\ UNCHANGED <<now, inbox>>

CacheUpsert(p, failAt) ==
    LET r == upsert_participant(World(sheet, cache, failAt), p, now)
    IN /\ Commit(r.w)
       /\ ops' = ops + 1
       /\ last' = Did("upsert_participant", r.exc, p.tg_id, r.val, r.w)
       /\ task' = [task EXCEPT !.listed_at = None]
       /\ UNCHANGED <<now, inbox>>

InitCache ==
    /\ sheet = SeedSheet(NumRows, {})
    /\ cache = None
    /\ now = 0
    /\ task \in {[pc |-> "caller", participants_cache_ttl |-> s, listed_at |-> None] :
                    s \in CacheSettings}
    /\ inbox = NoInbox
    /\ faults = 0
    /\ ops = 0
    /\ last = Nothing

NextCache ==
    \/ Clock
    \/ /\ ops < MaxReads
       /\ \/ \E f \in FailPoints(2) : CacheListAll(f)
          \/ \E u \in {1, NumRows + 1}, f \in FailPoints(4) :
                CacheUpsert(NewParticipant(u, 2), f)

SpecCache == InitCache /\ [][NextCache]_vars

-----------------------------------------------------------------------------
(* The registration flow alone: the participants of FlowUsers, the first   *)
(* with a row in the worksheet, start or restart the flow and send up to   *)
(* MaxMessages updates out of a list of texts that are valid for some step, *)
(* for none, or the cancel word.                                            *)

FlowUsers == 1..2

FlowTexts ==
    { <<>>,
      <<"O", "t", "m", "e", "n", "a">>,
      <<" ", "o", "t", "m", "e", "n", "a">>,
      <<"i", "v", "a", "n">>,
      <<"I", "v", "a", "n", "o", "v", " ", "I", "v", "a", "n">>,
      <<"i", "v", "a", "n", "o", "v", "2">>,
      <<"i", "t">>,
      <<"o", "t", "d", "e", "l", " ", "7">>,
      <<"8", "9", "9", "9", "0", "0", "0", "0", "0", "0", "1">>,
      <<"+", "7", " ", "(", "9", "9", "9", ")", " ", "0", "0", "0", "-", "0", "0", "-", "0", "2">>,
      <<"9", "9", "9", "9", "0", "0", "0", "0", "0", "0", "1">>,
      <<"8", "9", "9", "9", "0", "0">> }

InitFlow ==
    /\ sheet = SeedSheet(1, {})
    /\ cache \in {None, WarmCache(sheet)}
    /\ now = 0
    /\ task = [u \in FlowUsers |-> NoFlow]
    /\ inbox = NoInbox
    /\ faults = 0
    /\ ops = 0
    /\ last = Nothing

NextFlow ==
    /\ ops < MaxMessages
    /\ \/ \E u \in FlowUsers : cq_register_start(u)
       \/ \E u \in FlowUsers, text \in FlowTexts, f \in FailPoints(6) :
             FlowMessage(u, text, f)

SpecFlow == InitFlow /\ [][NextFlow]_vars

-----------------------------------------------------------------------------
(* The operations that begin by loading the participant list: /draw,       *)
(* /notify and the broadcast, up to MaxLoads of them, from an empty        *)
(* worksheet, from participants all approved, from a finished draw, and    *)
(* from a worksheet in which a cell of an integer column was edited by     *)
(* hand into text, so that Participant.from_row raises ValueError.         *)

\* The worksheet with the recipient id of its last row typed over
SpoiltSheet(sh) == [sh EXCEPT ![Len(sh)][11] = "n/a"]

InitLoad ==
    /\ sheet \in {<<>>, SeedSheet(NumUsers, 1..NumUsers), DrawnSheet(NumUsers),
                  SpoiltSheet(SeedSheet(NumUsers, 1..NumUsers))}
    /\ cache = None
    /\ now = participants_cache_ttl
    /\ task = NoTask
    /\ inbox = NoInbox
    /\ faults = 0
    /\ ops = 0
    /\ last = Nothing

NextLoad ==
    \/ \E a \in BOOLEAN, f \in FailPoints(2) : DrawAnswered(a, f)
    \/ \E d \in BOOLEAN, f \in FailPoints(3) : Delivered(d, f)
    \/ \E a \in BOOLEAN : BroadcastAnswered(a)
    \/ \E d \in BOOLEAN : BroadcastCopied(d)
    \/ \E f \in FailPoints(3 * NumUsers + 2) : (ops < MaxLoads /\ DrawTrigger(f))
    \/ \E f \in FailPoints(2) : (ops < MaxLoads /\ task.pc = "idle" /\ NotifyTrigger(f))
    \/ \E f \in FailPoints(2) : (ops < MaxLoads /\ BroadcastDo(f))

SpecLoad == InitLoad /\ [][NextLoad]_vars

-----------------------------------------------------------------------------
(* After a draw that failed partway: the worksheet is the one a /draw over  *)
(* NumUsers approved participants leaves when a request of one of its       *)
(* writes raises after an earlier write; then up to MaxRedraws of /draw,    *)
(* leave and rejection are handled, with every shuffle in a draw that runs. *)

\* The worksheets _handle_draw leaves when its loop raises with rows written,
\* the shuffle having left the eligible participants in the order of the rows
PartialSheets(sh) ==
    LET eligible == SelectSeq(FreshList(sh), IsEligible)
        runs == {PersistDraw(World(sh, None, f), eligible, 1, participants_cache_ttl) :
                    f \in 1..(3 * Len(eligible))}
    IN {r.w.sheet : r \in {x \in runs : x.exc # "none"
                                         /\ DataRows(x.w.sheet) # DataRows(sh)}}

InitRedraw ==
    /\ sheet \in PartialSheets(SeedSheet(NumUsers, 1..NumUsers))
    /\ cache = None
    /\ now = participants_cache_ttl
    /\ task = NoTask
    /\ inbox = NoInbox
    /\ faults = 0
    /\ ops = 0
    /\ last = Nothing

NextRedraw ==
    \/ \E f \in FailPoints(3 * NumUsers + 2) : (ops < MaxRedraws /\ DrawTrigger(f))
    \/ \E u \in Users, f \in FailPoints(6) : (ops < MaxRedraws /\ Leave(u, f))
    \/ \E u \in Users, f \in FailPoints(6) :
          (ops < MaxRedraws /\ Validation(u, FALSE, f))
    \/ \E a \in BOOLEAN, f \in FailPoints(2) : DrawAnswered(a, f)
    \/ \E d \in BOOLEAN, f \in FailPoints(3) : Delivered(d, f)

SpecRedraw == InitRedraw /\ [][NextRedraw]_vars

-----------------------------------------------------------------------------
(* Updates of the admin kinds sent by the administrator and by a           *)
(* participant: up to MaxUpdates of them, over NumUsers participants of    *)
(* whom the first two are approved, before and after their draw.           *)

Senders == {1, AdminId}

InitGate ==
    /\ sheet \in {SeedSheet(NumUsers, 1..2), DrawnSheet(2)}
    /\ cache = None
    /\ now = participants_cache_ttl
    /\ task = NoTask
    /\ inbox = NoInbox
    /\ faults = 0
    /\ ops = 0
    /\ last = Nothing

NextGate ==
    \/ \E s \in Senders, kind \in AdminKinds, u \in {1, NumUsers} :
          (ops < MaxUpdates /\ Arrive(s, kind, u))
    \/ \E f \in FailPoints(3 * NumUsers + 2) : AdminHandler(f)
    \/ \E a \in BOOLEAN, f \in FailPoints(2) : (last.op # "update" /\ DrawAnswered(a, f))
    \/ \E d \in BOOLEAN, f \in FailPoints(3) : (last.op # "update" /\ Delivered(d, f))
    \/ \E a \in BOOLEAN : (last.op # "update" /\ BroadcastAnswered(a))
    \/ \E d \in BOOLEAN : (last.op # "update" /\ BroadcastCopied(d))

SpecGate == InitGate /\ [][NextGate]_vars

-----------------------------------------------------------------------------
(* Claims about the service, under SpecService *)

SameFields(p, q) == [p EXCEPT !.row_index = 0] = [q EXCEPT !.row_index = 0]

\* C8: get_by_tg_id never answers not-found (None) when the store lookup of
\* the identifier failed with a transport error.
C8_TransportFailureIsNotNotFound ==
    (last.op = "get_by_tg_id" /\ last.swallowed)
        => ~(last.result = "none" /\ last.val = None)

\* C9: a successful upsert_participant leaves the cache empty, and the read
\* that follows it (get_by_tg_id of the same tg_id, or list_all) returns the
\* written values for that tg_id and no others, when no store call of the
\* read fails.
C9_ReadAfterUpsertReturnsWritten ==
    [][ /\ (last'.op = "upsert_participant" /\ last'.result = "none") => cache' = None
        /\ (/\ last.op = "upsert_participant"
            /\ last.result = "none"
            /\ last'.result = "none"
            /\ ~last'.fault
            /\ last'.op = "get_by_tg_id"
            /\ last'.user = last.user)
              => (last'.val # None /\ SameFields(last'.val[1], last.val[1]))
        /\ (/\ last.op = "upsert_participant"
            /\ last.result = "none"
            /\ last'.result = "none"
            /\ ~last'.fault
            /\ last'.op = "list_all")
              => /\ \E k \in 1..Len(last'.val) : SameFields(last'.val[k], last.val[1])
                 /\ \A k \in 1..Len(last'.val) :
                       last'.val[k].tg_id = last.user
                           => SameFields(last'.val[k], last.val[1])
      ]_vars

\* C10: when a batch write of bulk_upsert_participants fails after an
\* earlier batch was written, the cache is empty when the call ends.
C10_BulkFailureInvalidatesCache ==
    [][ (/\ last'.op = "bulk_upsert_participants"
         /\ last'.result = "TransportError"
         /\ DataRows(sheet') # DataRows(sheet))
            => cache' = None
      ]_vars

-----------------------------------------------------------------------------
(* Claims about the draw, checked under SpecDraw *)

\* The participants the data rows of a worksheet hold, in row order
Stored(sh) == [k \in 1..Len(DataRows(sh)) |-> from_row(DataRows(sh)[k])]
EligibleStored(sh) == SelectSeq(Stored(sh), IsEligible)
Ids(ps) == {ps[k].tg_id : k \in 1..Len(ps)}
AllAssigned(ps) == \A k \in 1..Len(ps) : TruthyInt(ps[k].recipient_tg_id)

Range(seq) == {seq[k] : k \in 1..Len(seq)}

\* This step is one /draw handled
DrawStep == ops' = ops + 1 /\ last'.op = "draw"

\* Over the set E of stored eligible participants
PerfectAssignment(E) ==
    /\ \A p \in E :
          /\ TruthyInt(p.recipient_tg_id)
          /\ p.recipient_tg_id[1] # p.tg_id
          /\ \E q \in E : q.tg_id = p.recipient_tg_id[1]
    /\ \A q \in E : Cardinality({p \in E : p.recipient_tg_id = Some(q.tg_id)}) = 1

\* C1: a draw over a store with at least 2 eligible participants, none of
\* them with a recipient, in which no store call fails, completes and leaves
\* every eligible participant with one recipient who is eligible and is not
\* the participant, and every eligible participant the recipient of exactly
\* one eligible participant, whichever order the shuffle produced.
C1_DrawIsPerfectAssignment ==
    [][ (DrawStep /\ ~last'.fault /\ task.pc = "idle")
        => LET before == Range(EligibleStored(sheet))
               after == Range(EligibleStored(sheet'))
           IN (Cardinality(before) >= 2 /\ \A p \in before : ~TruthyInt(p.recipient_tg_id))
              => (/\ last'.result = "ok"
                  /\ {p.tg_id : p \in after} = {p.tg_id : p \in before}
                  /\ Cardinality(after) = Cardinality(before)
                  /\ Len(EligibleStored(sheet')) = Cardinality(after)
                  /\ PerfectAssignment(after)) ]_vars

C1_Witness ==
    /\ last.op = "draw" /\ last.result = "ok" /\ ~last.fault
    /\ Len(EligibleStored(sheet)) >= 3
    /\ Len(EligibleStored(sheet)) < Len(Stored(sheet))
    /\ AllAssigned(EligibleStored(sheet))

\* The recipient links of the participants E, as pairs <<santa, receiver>>
\* (receiver 0: none), and the receiver of id along them
Links(E) ==
    {<<E[k].tg_id, IF TruthyInt(E[k].recipient_tg_id) THEN E[k].recipient_tg_id[1] ELSE 0>> :
        k \in 1..Len(E)}
RecipientOf(links, id) ==
    IF \E l \in links : l[1] = id THEN (CHOOSE l \in links : l[1] = id)[2] ELSE 0

\* The participants reached from id along 1, 2, ..., k recipient links
RECURSIVE Orbit(_, _, _)
Orbit(links, id, k) ==
    IF k = 0 THEN <<>>
    ELSE LET nxt == RecipientOf(links, id) IN <<nxt>> \o Orbit(links, nxt, k - 1)

SingleCycle(E) ==
    LET links == Links(E)
        n == Len(E)
    IN \A start \in Ids(E) :
          LET visited == Orbit(links, start, n)
          IN /\ Range(visited) = Ids(E)
             /\ \A k \in 1..(n - 1) : visited[k] # start
             /\ visited[n] = start

\* C2: the assignment a completed draw leaves in the store is a single cycle:
\* from any eligible participant the recipient links visit all n eligible
\* participants and come back to the start only at the n-th link.
C2_DrawIsSingleCycle ==
    [][ (DrawStep /\ last'.result = "ok" /\ ~last'.fault)
        => LET after == EligibleStored(sheet')
           IN Len(after) >= 2 /\ SingleCycle(after) ]_vars

C2_Witness ==
    /\ last.op = "draw" /\ last.result = "ok" /\ ~last.fault
    /\ Len(EligibleStored(sheet)) = 4
    /\ Orbit(Links(EligibleStored(sheet)), 1, 4)[2] # 1
    /\ Orbit(Links(EligibleStored(sheet)), 1, 4)[4] = 1

\* C3: a draw over a store with fewer than 2 eligible participants reports
\* 'insufficient' (or the failure of its read), changes no data row and
\* sends nothing: no message is delivered and no notification run starts.
C3_InsufficientDrawMutatesNothing ==
    [][ (DrawStep /\ Len(EligibleStored(sheet)) < 2)
        => (/\ last'.result \in {"insufficient", "load_error"}
            /\ ~last'.fault => last'.result = "insufficient"
            /\ DataRows(sheet') = DataRows(sheet)
            /\ inbox' = inbox
            /\ task' = task) ]_vars

C3_Witness ==
    /\ last.op = "draw" /\ last.result = "insufficient"
    /\ Len(EligibleStored(sheet)) = 1
    /\ Len(Stored(sheet)) > 1

Assignments(sh) ==
    [k \in 1..Len(Stored(sh)) |->
        <<Stored(sh)[k].tg_id, Stored(sh)[k].recipient_tg_id,
          Stored(sh)[k].recipient_name, Stored(sh)[k].recipient_info>>]

\* C4: a draw triggered when an earlier draw has given every one of the 2 or
\* more eligible participants a recipient reports 'conflict' (or the failure
\* of its read) and leaves recipient_tg_id, recipient_name and
\* recipient_info of every participant as they were.
C4_SecondDrawConflicts ==
    [][ (/\ DrawStep
         /\ Len(EligibleStored(sheet)) >= 2
         /\ AllAssigned(EligibleStored(sheet)))
        => (/\ last'.result \in {"conflict", "load_error"}
            /\ ~last'.fault => last'.result = "conflict"
            /\ Assignments(sheet') = Assignments(sheet)
            /\ inbox' = inbox) ]_vars

C4_Witness ==
    /\ last.op = "draw" /\ last.result = "conflict" /\ ops = 2
    /\ Len(EligibleStored(sheet)) >= 2
    /\ AllAssigned(EligibleStored(sheet))

-----------------------------------------------------------------------------
(* Claims about the notification runs, checked under SpecNotify *)

\* A notification run has just returned; its report
RunEnded == last.op \in {"notify", "draw_notify", "deliver"} /\ last.val # None
Rep == last.val[1]

Playing(p) == p.active /\ p.validated /\ TruthyInt(p.recipient_tg_id)

\* The positions of the snapshot a run of the report's mode is to write to
Due(rep) ==
    {i \in 1..Len(rep.snapshot) :
        /\ Playing(rep.snapshot[i])
        /\ ~(rep.only_notified_false /\ rep.snapshot[i].notified)}

\* C5: a message goes only to the participant the run is at, who is active,
\* validated and has a recipient in the snapshot and, in first-notification
\* mode, is not notified in the snapshot; a run attempts no other
\* participant, and a reminder run attempts every participant of its
\* snapshot that is active, validated and has a recipient, notified or not.
C5_NotifyAudience ==
    /\ [][ inbox' # inbox =>
             /\ task.pc = "sending"
             /\ LET p == task.snapshot[task.idx]
                    kind == IF task.reminder THEN "reminder" ELSE "first"
                IN /\ Playing(p)
                   /\ task.only_notified_false => ~p.notified
                   /\ inbox' = [inbox EXCEPT ![p.tg_id][kind] = @ + 1] ]_vars
    /\ [](RunEnded =>
             /\ \A i \in Range(Rep.attempted) :
                   /\ Playing(Rep.snapshot[i])
                   /\ Rep.only_notified_false => ~Rep.snapshot[i].notified
             /\ Rep.reminder =>
                   \A i \in 1..Len(Rep.snapshot) :
                      Playing(Rep.snapshot[i]) => i \in Range(Rep.attempted))

C5_Witness ==
    /\ RunEnded /\ Rep.reminder
    /\ \E i \in Range(Rep.attempted) :
          /\ Rep.snapshot[i].notified
          /\ inbox[Rep.snapshot[i].tg_id] = [first |-> 0, reminder |-> 1, copy |-> 0]
    /\ \E u \in Users : inbox[u].first = 1
    /\ \E j \in 1..Len(Rep.snapshot) :
          /\ ~Rep.snapshot[j].active
          /\ TruthyInt(Rep.snapshot[j].recipient_tg_id)
          /\ inbox[Rep.snapshot[j].tg_id] = [first |-> 0, reminder |-> 0, copy |-> 0]

\* C6: when a reminder run has returned, the notified flag stored for every
\* participant is the flag the run read at its start.
C6_ReminderKeepsNotified ==
    (RunEnded /\ Rep.reminder) =>
        \A i \in 1..Len(Rep.snapshot) :
           Stored(sheet)[i].notified = Rep.snapshot[i].notified

\* C7: when a run has returned, it has attempted every candidate of its
\* snapshot exactly once, whether or not deliveries failed on the way, and
\* its counts add up: sent + failed = number of candidates.
C7_FailureDoesNotAbort ==
    RunEnded =>
        /\ Range(Rep.attempted) = Due(Rep)
        /\ Len(Rep.attempted) = Cardinality(Due(Rep))
        /\ Rep.sent + Rep.failed = Cardinality(Due(Rep))

C7_Witness ==
    /\ RunEnded /\ last.result = "sent"
    /\ Rep.failed >= 1 /\ Rep.sent >= 1
    /\ Len(Rep.attempted) >= 2
    /\ Rep.sent + Rep.failed = Len(Rep.attempted)

-----------------------------------------------------------------------------
(* Claims about bulk_upsert_participants, checked under SpecBulk *)

BulkStep == ops' = ops + 1 /\ last'.op = "bulk_upsert_participants"

\* C11: bulk_upsert_participants of a list in which some participant has no
\* row position fails with an error and leaves every data row of the store
\* as it was, the rows of the positioned participants of the list included.
C11_BulkWithoutPositionWritesNothing ==
    [][ (BulkStep /\ \E k \in 1..Len(last'.val) : last'.val[k].row_index = 0)
        => (/\ last'.result # "none"
            /\ DataRows(sheet') = DataRows(sheet)) ]_vars

C11_Witness ==
    /\ last.op = "bulk_upsert_participants"
    /\ last.result = "AttributeError"
    /\ \E k \in 1..Len(last.val) : last.val[k].row_index = 0
    /\ \E k \in 1..Len(last.val) :
          /\ last.val[k].row_index # 0
          /\ ~from_row(sheet[last.val[k].row_index]).notified

-----------------------------------------------------------------------------
(* Claims about the copies the cache hands out, checked under SpecCopies *)

Fields(objs) == [k \in 1..Len(objs) |-> objs[k].p]
StoreFields(sh) == [k \in 1..Len(FreshList(sh)) |-> [FreshList(sh)[k] EXCEPT !.row_index = 0]]
WithoutPosition(ps) == [k \in 1..Len(ps) |-> [ps[k] EXCEPT !.row_index = 0]]

\* C12: an attribute assigned on a record a list_all returned changes no
\* record of the other list_all's result and no record of the cache, so
\* every list_all and get_by_tg_id answered from the cache afterwards
\* returns the values of the store.
C12_ReturnedCopiesAreIndependent ==
    /\ [][ (last'.op = "assign" /\ ops' = ops + 1) =>
             /\ cache' = cache
             /\ task'.got = task.got
             /\ last'.result = "first" => task'.second = task.second
             /\ last'.result = "second" => task'.first = task.first
         ]_vars
    /\ []((last.op = "list_all" /\ last.swallowed) =>
             WithoutPosition(Fields(task[last.result])) = StoreFields(sheet))
    /\ []((last.op = "get_by_tg_id" /\ last.swallowed) =>
             \E k \in 1..Len(StoreFields(sheet)) :
                [task.got[1].p EXCEPT !.row_index = 0] = StoreFields(sheet)[k])

C12_Witness ==
    /\ last.op = "list_all" /\ last.swallowed /\ last.result = "second"
    /\ Len(task.first) = Len(task.second) /\ Len(task.first) >= 2
    /\ \E k \in 1..Len(task.first) : task.first[k].p.full_name = "Changed"
    /\ \A k \in 1..Len(task.second) : task.second[k].p.full_name # "Changed"
    /\ now <= participants_cache_ttl

-----------------------------------------------------------------------------
(* Claims about the rows of the whole bot, checked under SpecAdmin *)

TgIdCell(row) == IF Len(row) >= 2 THEN row[2] ELSE ""

\* C13: no two data rows of the store carry the same tg_id.
C13_TgIdUnique ==
    \A i, j \in 1..Len(DataRows(sheet)) :
       TgIdCell(DataRows(sheet)[i]) = TgIdCell(DataRows(sheet)[j]) => i = j

\* C14: every participant row has recipient_tg_id, recipient_name and
\* recipient_info all unset or all set.
C14_RecipientFieldsTogether ==
    \A p \in Range(Stored(sheet)) :
       \/ p.recipient_tg_id = None /\ p.recipient_name = None /\ p.recipient_info = None
       \/ p.recipient_tg_id # None /\ p.recipient_name # None /\ p.recipient_info # None

C14_Witness ==
    /\ \E p \in Range(Stored(sheet)) : p.recipient_tg_id # None /\ ~p.active
    /\ \E p \in Range(Stored(sheet)) : p.recipient_tg_id = None
    /\ last.op \in {"leave", "reject", "register"}

\* C15: every participant row with validated = true has a validator_tg_id
\* and a validation_ts.
C15_ValidatedHasValidator ==
    \A p \in Range(Stored(sheet)) :
       p.validated => (p.validator_tg_id # None /\ p.validation_ts # None)

C15_Witness ==
    /\ last.op = "approve" /\ last.result = "ok"
    /\ \E p \in Range(Stored(sheet)) :
          /\ p.tg_id = last.user /\ p.validated
          /\ p.validation_ts = Some(utc_now_iso(now))
          /\ p.validator_tg_id = Some(AdminId)

-----------------------------------------------------------------------------
(* Claims about the pure functions, checked under SpecPure *)

\* C16: Participant.from_row(p.to_row()) equals p in every declared field,
\* also when optional fields are unset or are empty strings.
C16_RoundTripIsLossless ==
    last.op = "round_trip" => last.val = Some(task.input)

\* C17: Participant.from_row returns a Participant for every row: it does
\* not raise, reads missing trailing cells as empty, takes a boolean for
\* true only when the cell is "TRUE" in any case, and gives tg_id 0 for a
\* tg_id cell that is not a number.
C17_FromRowNeverRaises ==
    last.op = "from_row" =>
        /\ last.result = "none"
        /\ last.val # None
        /\ last.val[1].active = (_get(task.input, 6) \in {"TRUE", "true"})
        /\ Len(task.input) <= 14 => last.val[1].admin_comment = None
        /\ ~IsIntText(_get(task.input, 1)) => last.val[1].tg_id = 0

Normalized == <<"+", "7", "9", "9", "9", "1", "2", "3", "4", "5", "6", "7">>
Example1 == <<"8", "9", "9", "9", "1", "2", "3", "4", "5", "6", "7">>
Example2 == <<"+", "7", "9", "9", "9", "1", "2", "3", "4", "5", "6", "7">>
Example3 ==
    <<"8", " ", "(", "9", "9", "9", ")", " ", "1", "2", "3", "-", "4", "5", "-", "6", "7">>

\* C18: a text with exactly 11 digits, the first of them 7 or 8, normalizes
\* to "+7" followed by its last 10 digits, whatever stands between the
\* digits; a text with fewer than 11 digits, or whose first digit is not 7
\* or 8, is rejected; "89991234567", "+79991234567" and "8 (999) 123-45-67"
\* all give "+79991234567".
C18_PhoneNormalization ==
    last.op = "_normalize_russian_phone" =>
        LET ds == SelectSeq(task.input, LAMBDA c : c \in DigitChars)
        IN /\ (Len(ds) = 11 /\ ds[1] \in {"7", "8"})
                 => last.val = Some(<<"+", "7">> \o SubSeq(ds, 2, 11))
           /\ (Len(ds) < 11 \/ ds[1] \notin {"7", "8"}) => last.val = None
           /\ task.input \in {Example1, Example2, Example3} => last.val = Some(Normalized)

C18_Witness ==
    /\ last.op = "_normalize_russian_phone"
    /\ task.input = Example3
    /\ last.val = Some(Normalized)

-----------------------------------------------------------------------------
(* Claims about the game of two, checked under SpecEndToEnd *)

Mutual ==
    /\ \A u \in Pair : Cardinality({k \in 2..Len(sheet) : sheet[k][2] = str(u)}) = 1
    /\ RowParticipant(1).recipient_tg_id = Some(2)
    /\ RowParticipant(2).recipient_tg_id = Some(1)

\* C19: with nothing failing, once participants 1 and 2 have registered and
\* been approved, the draw leaves each with the other as recipient, and once
\* the /notify that follows has run, each of them has received exactly one
\* first-notification message in all and is stored as notified.
C19_EndToEnd ==
    /\ (faults = 0 /\ last.op = "draw" /\ last.result = "ok") => Mutual
    /\ (faults = 0 /\ RunEnded /\ ~Rep.only_notified_false) =>
          /\ Mutual
          /\ \A u \in Pair : inbox[u].first = 1 /\ RowParticipant(u).notified

C19_Witness ==
    /\ faults = 0 /\ RunEnded /\ ~Rep.only_notified_false
    /\ Len(Rep.attempted) = 2
    /\ \A u \in Pair : inbox[u] = [first |-> 1, reminder |-> 1, copy |-> 0]
    /\ \A u \in Pair : RowParticipant(u).notified

-----------------------------------------------------------------------------
(* Claims about profile edits after a draw, checked under SpecEdit *)

EditStep == ops' = ops + 1 /\ last'.op = "register"

\* The stored participants whose recipient is u
SantasOf(u) == {p \in Range(Stored(sheet)) : p.recipient_tg_id = Some(u)}

\* C20: a registration by a participant R after a draw leaves every row that
\* is not R's as it was, and the recipient_name and recipient_info stored on
\* the participant whose recipient is R stay those of R's profile at the draw.
C20_SnapshotNotLinked ==
    /\ [][EditStep =>
            \A k \in 1..Len(sheet) :
                sheet[k][2] # str(last'.user) =>
                    (k <= Len(sheet') /\ sheet'[k] = sheet[k])]_vars
    /\ [](\A u \in Users : \A p \in SantasOf(u) :
              /\ p.recipient_name = Some(Registered(u).full_name)
              /\ p.recipient_info = Some(recipient_info(Registered(u))))

C20_Witness ==
    /\ last.op = "register" /\ last.result = "ok"
    /\ \E p \in Range(Stored(sheet)) :
          /\ p.tg_id = last.user
          /\ p.full_name = FullName(last.user, 2)
          /\ p.department = Department(2)
          /\ TruthyInt(p.recipient_tg_id)
    /\ \E s \in SantasOf(last.user) :
          /\ s.recipient_name = Some(FullName(last.user, 1))
          /\ s.recipient_info = Some(recipient_info(Registered(last.user)))

-----------------------------------------------------------------------------
(* Claims about leaving, checked under SpecAdmin *)

LeaveStep == ops' = ops + 1 /\ last'.op = "leave"

\* C21: no step removes a row of the worksheet, and a leave that is confirmed
\* to a registered participant stores active = FALSE on every row of that
\* participant and leaves every other field of it but updated_at as it was.
C21_LeaveKeepsHistory ==
    [][/\ Len(sheet') >= Len(sheet)
       /\ (LeaveStep /\ last'.result = "ok") =>
             \A k \in 2..Len(sheet) :
                 sheet[k][2] = str(last'.user) =>
                     from_row(sheet'[k]) =
                         [from_row(sheet[k]) EXCEPT
                             !.active = FALSE,
                             !.updated_at = from_row(sheet'[k]).updated_at]]_vars

-----------------------------------------------------------------------------
(* Claims about draw triggers in flight together, checked under SpecRace *)

\* The handler of a draw that passed the conflict check is suspended
DrawInFlight == task.pc # "idle"

\* What the conflict check of a /draw handled in this state comes to
GuardNow(failAt) == DrawGuard(list_all(World(sheet, cache, failAt), now))

SomeEligibleAssigned(sh) ==
    \E p \in Range(EligibleStored(sh)) : TruthyInt(p.recipient_tg_id)

\* C22 as amended: the conflict check and the writes of a draw run without a
\* suspension between them, so a draw trigger handled while the handler of
\* another draw is suspended does not pass the check, and a draw writes
\* assignments only to a store in which no eligible participant has one.
C22_CheckAndWriteNotInterleaved ==
    /\ [](DrawInFlight => \A f \in 0..2 : GuardNow(f) # "go")
    /\ [][(DrawStep /\ Assignments(sheet') # Assignments(sheet))
              => ~SomeEligibleAssigned(sheet)]_vars

C22_Witness ==
    /\ DrawInFlight
    /\ ops = 2
    /\ last.op = "draw" /\ last.result = "conflict" /\ ~last.fault
    /\ AllAssigned(EligibleStored(sheet))

\* C22 as claimed: a draw trigger handled, with nothing failing, while the
\* handler of another draw is in flight passes the conflict check as the first
\* did, and both draws persist assignments.
C22_BothDrawsPass ==
    (DrawInFlight /\ ops = 2 /\ faults = 0 /\ last.op = "draw") => last.result = "ok"

-----------------------------------------------------------------------------
(* Claims about a draw whose persistence fails, checked under SpecDraw *)

\* The store after the first k - 1 santas of the order sh were written
PartlyDrawn(old, new, sh, k) ==
    \A j \in 1..Len(old) :
        LET pos == {i \in 1..Len(sh) : sh[i].tg_id = old[j].tg_id}
            i == CHOOSE x \in pos : TRUE
        IN IF pos # {} /\ i < k
           THEN new[j] = [Assign(old[j], sh[ReceiverIndex(i, Len(sh))])
                             EXCEPT !.updated_at = new[j].updated_at]
           ELSE new[j] = old[j]

\* C23: when a write of the draw's loop raises, there are an order of the
\* eligible participants and a position k in it such that the k - 1 santas
\* before it hold their new recipient in the store and every other row is as
\* it was, with no recipient on the remaining eligible rows; the handler has
\* ended and no message has been sent.
C23_PartialDrawIsKept ==
    [][(DrawStep /\ last'.result = "persist_error") =>
          LET old == Stored(sheet)
              new == Stored(sheet')
              E == SelectSeq(old, IsEligible)
          IN /\ Len(new) = Len(old)
             /\ \E sh \in Shuffles(E) : \E k \in 1..Len(E) :
                    PartlyDrawn(old, new, sh, k)
             /\ ~AllAssigned(SelectSeq(new, IsEligible))
             /\ inbox' = inbox
             /\ task'.pc = "idle"]_vars

C23_Witness ==
    /\ last.op = "draw" /\ last.result = "persist_error"
    /\ task.pc = "idle"
    /\ Cardinality({p \in Range(EligibleStored(sheet)) :
                       TruthyInt(p.recipient_tg_id)}) = 2
    /\ Cardinality({p \in Range(EligibleStored(sheet)) :
                       ~TruthyInt(p.recipient_tg_id)}) >= 1
    /\ inbox = NoInbox

-----------------------------------------------------------------------------
(* Claims about upsert_participant, checked under SpecService *)

UpsertStep == ops' = ops + 1 /\ last'.op = "upsert_participant" /\ last'.result = "none"

RowsOf(sh, u) == {k \in 2..Len(sh) : sh[k][2] = str(u)}

\* C24: an upsert_participant that returns appends exactly one row when the
\* tg_id had none and adds none when it had one; in the first case the new
\* row is the last, in the second the row of the tg_id is rewritten in place;
\* every other data row is as it was, and the returned position holds a row
\* with the participant's tg_id in its Telegram ID cell.
C24_UpsertTouchesOneRow ==
    [][UpsertStep =>
          LET u == last'.user
              pos == last'.val[1].row_index
          IN /\ pos \in RowsOf(sheet', u)
             /\ IF RowsOf(sheet, u) = {}
                THEN /\ DataRows(sheet') = Append(DataRows(sheet), sheet'[pos])
                     /\ pos = Len(sheet')
                ELSE /\ Len(sheet') = Len(sheet)
                     /\ pos \in RowsOf(sheet, u)
                     /\ \A k \in 2..Len(sheet) : k # pos => sheet'[k] = sheet[k]]_vars

-----------------------------------------------------------------------------
(* Claims about the cache over time, checked under SpecCache *)

ListStep == ops' = ops + 1 /\ last'.op = "list_all" /\ ~last'.fault

\* The store requests of the list_all just made: 1 is the header read alone
Requests(l) == l.user

SnapshotOf(sh, t, ttl) ==
    Some([expires_at |-> t + ttl, participants |-> CloneAll(RowsToParticipants(sh))])

\* C25: a list_all made when an earlier list_all read the store at time t0,
\* with no write since and the clock at most at t0 + ttl, reads the header
\* only, returns the rows as that read found them and leaves the snapshot and
\* its expiry as they are; made after t0 + ttl it reads the data rows again
\* and stores a snapshot that expires ttl later; with a ttl of 0 every
\* list_all reads the data rows and the cache is empty in every state.
C25_LazyExpiry ==
    /\ [][ListStep =>
            IF /\ ServiceTtl > 0
               /\ task.listed_at # None
               /\ now <= task.listed_at[1] + ServiceTtl
            THEN /\ Requests(last') = 1
                 /\ last'.val[1] = CloneAll(RowsToParticipants(sheet))
                 /\ cache' = cache
                 /\ cache = SnapshotOf(sheet, task.listed_at[1], ServiceTtl)
            ELSE (task.listed_at # None \/ ServiceTtl = 0) =>
                 /\ Requests(last') = 2
                 /\ last'.val[1] = RowsToParticipants(sheet)
                 /\ cache' = IF ServiceTtl > 0
                             THEN SnapshotOf(sheet, now, ServiceTtl)
                             ELSE None]_vars
    /\ [](ServiceTtl = 0 => cache = None)

\* A list_all answered from the snapshot at the very time of its expiry, and
\* before it one that read the store again after an expiry
C25_Witness ==
    /\ last.op = "list_all" /\ ~last.fault /\ Requests(last) = 1
    /\ cache # None /\ now = cache[1].expires_at
    /\ task.listed_at = Some(now - ServiceTtl)
    /\ ops >= 2

-----------------------------------------------------------------------------
(* Claims about the registration flow, checked under SpecFlow *)

\* This step handles a message of user u in the flow
MessageStep(u) ==
    /\ ops' = ops + 1
    /\ last'.user = u
    /\ last'.op \in {"reg_cancel", "reg_fio", "reg_department", "reg_phone", "register"}

IsCancel(text) == casefold(text) = Otmena

ValidFullName(text) == FIO_RE(strip(text))
ValidDepartment(text) ==
    /\ Len(strip(text)) >= 3
    /\ Len(DigitsOf(text)) < 10
ValidPhone(text) ==
    /\ Len(DigitsOf(text)) = PhoneLength
    /\ DigitsOf(text)[1] \in {"7", "8"}

ValidAt(state, text) ==
    CASE state = "fio" -> ValidFullName(text)
      [] state = "department" -> ValidDepartment(text)
      [] state = "phone" -> ValidPhone(text)

-----------------------------------------------------------------------------
(* Claims about what a first-notification run leaves, checked under SpecNotify *)

FirstRunEnded == RunEnded /\ Rep.only_notified_false /\ ~Rep.reminder

Reached == {u \in Users : inbox[u].first > 0}

\* C27: when a first-notification run has returned, every participant who
\* received its message is stored as notified on every row of theirs, and
\* the run's sent count is the number of participants who received it.
C27_DeliveredIsNotified ==
    FirstRunEnded =>
        /\ \A u \in Reached :
              \A p \in Range(Stored(sheet)) : p.tg_id = u => p.notified
        /\ Rep.sent = Cardinality(Reached)

-----------------------------------------------------------------------------
(* Claims about what a successful draw writes, checked under SpecDraw *)

\* q is p but for the fields a draw may write
DrawnFrom(q, p) ==
    q = [p EXCEPT !.recipient_tg_id = q.recipient_tg_id,
                  !.recipient_name = q.recipient_name,
                  !.recipient_info = q.recipient_info,
                  !.notified = q.notified,
                  !.updated_at = q.updated_at]

\* C28: a draw that ends ok leaves every row of a participant who is inactive
\* or not validated cell for cell as it was and changes, on the row of an
\* active and validated participant, nothing but recipient_tg_id,
\* recipient_name, recipient_info, notified and updated_at; a row it adds
\* is such a participant's; and when no request failed it adds none, and every
\* such row has a recipient and notified = FALSE.
C28_DrawWritesEligibleRowsOnly ==
    [][(DrawStep /\ last'.result = "ok") =>
          LET old == Stored(sheet)
              new == Stored(sheet')
              InGame == {k \in 1..Len(old) : old[k].active /\ old[k].validated}
          IN /\ Len(new) >= Len(old)
             /\ \A k \in 1..Len(old) :
                   IF k \in InGame THEN DrawnFrom(new[k], old[k])
                                   ELSE sheet'[k + 1] = sheet[k + 1]
             /\ \A k \in (Len(old) + 1)..Len(new) :
                   \E j \in InGame : DrawnFrom(new[k], old[j])
             /\ ~last'.fault =>
                   /\ Len(new) = Len(old)
                   /\ \A k \in InGame :
                         /\ TruthyInt(new[k].recipient_tg_id)
                         /\ ~new[k].notified]_vars

\* A draw over the approved participants of a worksheet that also holds one
\* who has left
C28_Witness ==
    /\ last.op = "draw" /\ last.result = "ok" /\ ~last.fault
    /\ \E p \in Range(Stored(sheet)) : ~p.active /\ ~TruthyInt(p.recipient_tg_id)
    /\ \E p \in Range(Stored(sheet)) :
          p.active /\ p.validated /\ TruthyInt(p.recipient_tg_id) /\ ~p.notified

-----------------------------------------------------------------------------
(* C29, under SpecLoad *)

LoadStep == last'.op \in {"draw", "notify", "draw_notify", "broadcast"}
                /\ last'.result = "load_error"

\* C29: a step of /draw, of a notification run or of a broadcast in which the
\* load of the participant list fails (a store request raises, or a row does
\* not parse) reports the load error to the administrator, leaves every data
\* row, the cache and every inbox as they were, and returns: no notification
\* or copy is left in flight and the dispatcher is free for the next event (a
\* /draw that fails this way leaves the handler suspended beside it alone);
\* a notification run reports sent = 0 and failed = 0 with nobody attempted.
C29_FailedLoadAborts ==
    [][LoadStep =>
          /\ DataRows(sheet') = DataRows(sheet)
          /\ cache' = cache
          /\ inbox' = inbox
          /\ task' = IF last'.op = "draw" THEN task ELSE NoTask
          /\ last'.op \in {"notify", "draw_notify"} =>
                 /\ last'.val # None
                 /\ last'.val[1].sent = 0
                 /\ last'.val[1].failed = 0
                 /\ last'.val[1].attempted = <<>>]_vars

\* On the worksheet with the cell typed over, where every load fails, a second
\* event has been handled after the first: /notify has reported (0, 0) and
\* nobody has received a message
C29_Witness ==
    /\ sheet = SpoiltSheet(SeedSheet(NumUsers, 1..NumUsers))
    /\ ops = MaxLoads
    /\ last.op = "notify"
    /\ last.result = "load_error"
    /\ last.val[1].sent = 0 /\ last.val[1].failed = 0
    /\ inbox = NoInbox
    /\ task = NoTask

-----------------------------------------------------------------------------
(* C30, under SpecService *)

Unexpired(c, t) == c # None /\ t <= c[1].expires_at

\* C30: in every state in which the cache holds a snapshot that has not
\* expired, the snapshot is the participants of the current data rows of the
\* store, also after an upsert or a bulk upsert that failed partway.
C30_CacheCoherence ==
    Unexpired(cache, now) => cache[1].participants = CloneAll(Stored(sheet))

-----------------------------------------------------------------------------
(* C31, under SpecAdmin *)

\* This step is one delivery of a notification run, with its persist
DeliverStep == task.pc = "sending" /\ last'.op = "deliver"

\* The cells of a row other than updated_at and notified
KeptCells == (1..Len(PARTICIPANTS_COLUMNS)) \ {1, 14}

\* C31: the persist that follows a delivery to participant p changes on p's
\* row nothing but notified and updated_at: what another handler has written
\* to the row since the run read its snapshot is still there after it.
C31_NoLostUpdate ==
    [][DeliverStep =>
          \A k \in RowsOf(sheet, task.snapshot[task.idx].tg_id) :
              \A c \in KeptCells : sheet'[k][c] = sheet[k][c]]_vars

-----------------------------------------------------------------------------
(* C32, under SpecRedraw *)

\* The eligible participants of the store that have a recipient: after the
\* failed draw, the santas it wrote that are still in the game
WrittenEligible(sh) ==
    {p \in Range(Stored(sh)) : IsEligible(p) /\ TruthyInt(p.recipient_tg_id)}
LeftOut(sh) ==
    {p \in Range(Stored(sh)) : IsEligible(p) /\ ~TruthyInt(p.recipient_tg_id)}

-----------------------------------------------------------------------------
(* C33, under SpecAdmin *)

EligibleIds(sh) == Ids(EligibleStored(sh))

\* C33: whenever some eligible participant has a recipient, every eligible
\* participant has a recipient who is eligible, and every eligible participant
\* is the recipient of exactly one eligible participant.
C33_EligibleAssignmentIsBijection ==
    LET es == EligibleStored(sheet)
    IN (\E k \in 1..Len(es) : TruthyInt(es[k].recipient_tg_id))
          => /\ \A k \in 1..Len(es) :
                   /\ TruthyInt(es[k].recipient_tg_id)
                   /\ es[k].recipient_tg_id[1] \in EligibleIds(sheet)
             /\ \A u \in EligibleIds(sheet) :
                   Cardinality({k \in 1..Len(es) :
                                   es[k].recipient_tg_id = Some(u)}) = 1

-----------------------------------------------------------------------------
(* C34, under SpecGate *)

FromStranger == last.op = "update" /\ last.user \notin admin_ids

\* C34: the step that handles a draw, notify, list, broadcast, approve or
\* reject update whose sender is not in the admin list leaves the store, the
\* cache and every inbox as they were, and starts no run.
C34_NonAdminChangesNothing ==
    [][FromStranger =>
          /\ sheet' = sheet
          /\ cache' = cache
          /\ inbox' = inbox
          /\ task' = task
          /\ last'.result = "refused"]_vars

\* A participant's /draw over two approved participants has been refused
\* after an earlier update, with nobody assigned and nothing delivered
C34_Witness ==
    /\ last.result = "refused"
    /\ last.op = "draw"
    /\ last.user = 1
    /\ ops = MaxUpdates
    /\ sheet = SeedSheet(NumUsers, 1..2)
    /\ inbox = NoInbox

-----------------------------------------------------------------------------
(* C35, under SpecAdmin *)

\* The participant whose leave has just been confirmed
JustLeft == last.op = "leave" /\ last.result = "ok"

\* C35: the step that follows a participant's confirmed leave, unless it is
\* that participant's registration, leaves every row of the participant with
\* active = FALSE: no approval, rejection, draw or notification sets it back.
C35_OnlyOwnRegistrationReactivates ==
    [][(JustLeft /\ ~(last'.op = "register" /\ last'.user = last.user)) =>
          \A k \in RowsOf(sheet', last.user) : ~from_row(sheet'[k]).active]_vars

-----------------------------------------------------------------------------
(* C36, under SpecService *)

\* The participants the last call returned: a list, one participant or none
Returned ==
    IF last.op = "list_all" THEN Range(last.val)
    ELSE IF last.val = None THEN {}
    ELSE {last.val[1]}

\* C36: every participant that list_all or get_by_tg_id returns carries the
\* position of a row of the store that holds its tg_id.
C36_ReturnedParticipantsArePositioned ==
    (last.op \in {"list_all", "get_by_tg_id"} /\ last.result = "none")
        => \A p \in Returned : p.row_index \in RowsOf(sheet, p.tg_id)

====
